---------------------------- MODULE Spec2Model ----------------------------
(***************************************************************************)
(* Model of the member-registry reconciliation tools of unique_member:     *)
(*   src/app_anggota.py  date filter, NIK filter (raw policy), key sets,   *)
(*                       the two directional comparisons;                  *)
(*   src/app.py          NIK normaliser (strip policy), cleaning pass,     *)
(*                       NIK comparison, template standardiser.            *)
(* Strings are sequences of one-character strings, so that strip, lower,   *)
(* isdigit, startswith, the digit filter and difflib's ratio are computed  *)
(* character by character as the Python code computes them.                *)
(***************************************************************************)
EXTENDS Integers, Sequences, FiniteSets, TLC

VARIABLES
    prog,                \* which script this behaviour runs
    pc,                  \* position of the script run
    \* ---- src/app_anggota.py ----
    f1, f2,              \* the two uploads: file name and the columns of the sheet
    file1, file2,        \* content of the two uploaded workbooks
    st_error,            \* the message shown by st.error, if any
    df1, df2,            \* the tables the script works on
    use_date_filter,     \* sidebar checkbox
    start_a, end_a, start_b, end_b,   \* sidebar date bounds
    df1_rawFiltered, df2_rawFiltered, \* result of filter_nik_len16_awal3
    df1_filteredNIK, df2_filteredNIK, \* after normalize_nik_columns
    nik_set_A, nik_set_B,
    df2_not_in_A, df1_3211_not_in_B,
    \* ---- src/app.py: normalize_nik ----
    val,                 \* the cell handed to normalize_nik
    nik_out,             \* what normalize_nik returned
    valid_raw,           \* what is_valid_nik_len16_awal3 returned for the same cell
    \* ---- src/app.py: clean_with_nik ----
    df_upload,           \* the table handed to clean_with_nik
    member_col, identity_col,   \* the two selectboxes
    do_clean, drop_dup,  \* the two checkboxes
    df_valid,            \* work.loc[mask_valid]
    df_clean,            \* the table returned (or None)
    \* ---- src/app.py: comparison of the two cleaned tables ----
    df_a, df_b,          \* the two uploaded tables (Dispusipda, Kab/Kota)
    widgets_a, widgets_b,       \* the selectboxes and checkboxes of each clean_with_nik
    df_a_clean, df_b_clean,     \* what clean_with_nik returned for each
    nik_a, nik_b,        \* the NIK sets of the cleaned tables
    df_only_b, df_only_a,       \* the two outputs of the comparison
    \* ---- src/app.py: _standardize ----
    std_src,             \* the source table
    std_which,           \* the origin tag, "kab" or "disp"
    std_k,               \* position of the loop of _standardize in TEMPLATE_ORDER
    src_col,             \* what _pick_source_col returned for the field just done
    std_out              \* the table out that _standardize builds and returns

varsAnggota == <<f1, f2, st_error, file1, file2, df1, df2, use_date_filter, start_a, end_a, start_b, end_b,
                 df1_rawFiltered, df2_rawFiltered, df1_filteredNIK, df2_filteredNIK,
                 nik_set_A, nik_set_B, df2_not_in_A, df1_3211_not_in_B>>

varsNorm == <<val, nik_out, valid_raw>>

varsClean == <<df_upload, member_col, identity_col, do_clean, drop_dup, df_valid, df_clean>>

varsCompare == <<df_a, df_b, widgets_a, widgets_b, df_a_clean, df_b_clean,
                 nik_a, nik_b, df_only_b, df_only_a>>

varsStd == <<std_src, std_which, std_k, src_col, std_out>>

vars == <<prog, pc, varsAnggota, varsNorm, varsClean, varsCompare, varsStd>>

-----------------------------------------------------------------------------
(* Bounds of the model *)

\* most records of table A (File A) and of table B (File B)
MaxRowsA == 2
MaxRowsB == 1

\* most records of the table handed to clean_with_nik
MaxRowsClean == 2

\* most records of each of the two tables that are compared
MaxRowsCompare == 1

\* most columns and most records of the table handed to _standardize
MaxColsStd == 2
MaxRowsStd == 2

-----------------------------------------------------------------------------
(* Characters and strings *)

AsciiDigits == {"0", "1", "2", "3", "4", "5", "6", "7", "8", "9"}

\* a decimal digit outside ASCII (ARABIC-INDIC DIGIT THREE): str.isdigit()
\* accepts it, the pattern [^0-9] does not
ArabicThree == "U+0663"

Whitespace == {" ", "\t"}

Rep(c, n) == [i \in 1..n |-> c]

RECURSIVE SelectChars(_, _)
\* the characters of s that are in set keep, in order
SelectChars(s, keep) ==
    IF s = <<>> THEN <<>>
    ELSE (IF Head(s) \in keep THEN <<Head(s)>> ELSE <<>>) \o SelectChars(Tail(s), keep)

\* str.startswith
startswith(s, p) == Len(s) >= Len(p) /\ SubSeq(s, 1, Len(p)) = p

\* str.isdigit: non-empty and every character is a digit (any script)
isdigit(s) == Len(s) > 0 /\ \A i \in 1..Len(s) : s[i] \in AsciiDigits \cup {ArabicThree}

RECURSIVE lstrip(_)
lstrip(s) == IF s # <<>> /\ Head(s) \in Whitespace THEN lstrip(Tail(s)) ELSE s

RECURSIVE rstrip(_)
rstrip(s) ==
    IF s # <<>> /\ s[Len(s)] \in Whitespace THEN rstrip(SubSeq(s, 1, Len(s) - 1)) ELSE s

\* str.strip
strip(s) == rstrip(lstrip(s))

-----------------------------------------------------------------------------
(* Cell values: a cell is a string or the missing value NaN *)

NaN == [kind |-> "nan", s |-> <<>>]
S(chars) == [kind |-> "str", s |-> chars]

\* Python str(value): NaN prints as "nan"
str(v) == IF v.kind = "nan" THEN <<"n", "a", "n">> ELSE v.s

\* a CreateDate cell: a parseable timestamp on calendar day `day`, or garbage
Stamp(d) == [kind |-> "ts", day |-> d]
BadStamp == [kind |-> "bad", day |-> 0]
NaT == [kind |-> "NaT", day |-> 0]
NoColumn == [kind |-> "absent", day |-> 0]

\* pd.to_datetime(errors = "coerce") on one cell
to_datetime(c) == IF c.kind = "ts" THEN c ELSE NaT

\* Series.dt.date on one cell
dt_date(t) == IF t.kind = "ts" THEN [kind |-> "date", day |-> t.day] ELSE NaT

-----------------------------------------------------------------------------
(* src/app_anggota.py *)

REQUIRED_COLS == <<"MemberNo", "IdentityNo", "CreateDate">>

NoError == [shown |-> FALSE, name |-> "", missing |-> <<>>]

\* ensure_required_columns that looks for the two key columns only
ensure_required_columns_keys(columns, name) ==
    LET missing == SelectSeq(SubSeq(REQUIRED_COLS, 1, 2), LAMBDA c : c \notin columns)
    IN  IF missing # <<>> THEN [shown |-> TRUE, name |-> name, missing |-> missing]
        ELSE NoError

\* ensure_required_columns: the st.error message when a required column is
\* missing (the run then stops), NoError otherwise
ensure_required_columns(columns, name) ==
    LET missing == SelectSeq(REQUIRED_COLS, LAMBDA c : c \notin columns)
    IN  IF missing # <<>> THEN [shown |-> TRUE, name |-> name, missing |-> missing]
        ELSE NoError

NikLen == 16
SubPrefix == <<"3", "2", "1", "1">>

is_valid_nik_len16_awal3(value) ==
    LET v == str(value) IN isdigit(v) /\ Len(v) = NikLen /\ startswith(v, <<"3">>)

filter_nik_len16_awal3_tail(df) ==
    LET mask_invalid_both(r) == ~is_valid_nik_len16_awal3(r.MemberNo)
                                /\ ~is_valid_nik_len16_awal3(r.IdentityNo)
        keep(r) == ~mask_invalid_both(r)
        kept == SelectSeq(df, keep)
    IN  IF kept = <<>> THEN kept ELSE Tail(kept)

filter_nik_len16_awal3(df) ==
    LET mask_invalid_both(r) == ~is_valid_nik_len16_awal3(r.MemberNo)
                                /\ ~is_valid_nik_len16_awal3(r.IdentityNo)
        keep(r) == ~mask_invalid_both(r)
    IN  SelectSeq(df, keep)

normalize_nik_columns(df) ==
    [i \in 1..Len(df) |->
        [df[i] EXCEPT !.MemberNo = S(strip(str(@))), !.IdentityNo = S(strip(str(@)))]]

\* a date cell compared with a bound: a missing date compares False
DateGE(d, bound) == d.kind = "date" /\ d.day >= bound
DateLE(d, bound) == d.kind = "date" /\ d.day <= bound

\* apply_date_filter with the upper bound excluded
apply_date_filter_before_end(df, start_d, end_d) ==
    LET parsed == [i \in 1..Len(df) |->
                     LET t == to_datetime(df[i].CreateDate)
                     IN  [df[i] EXCEPT !.CreateDate = t, !.date = dt_date(t)]]
        keep(r) == DateGE(r.date, start_d) /\ DateLE(r.date, end_d) /\ r.date.day # end_d
    IN  SelectSeq(parsed, keep)

apply_date_filter(df, start_d, end_d) ==
    LET parsed == [i \in 1..Len(df) |->
                     LET t == to_datetime(df[i].CreateDate)
                     IN  [df[i] EXCEPT !.CreateDate = t, !.date = dt_date(t)]]
        keep(r) == DateGE(r.date, start_d) /\ DateLE(r.date, end_d)
    IN  SelectSeq(parsed, keep)

\* set(df["MemberNo"]).union(set(df["IdentityNo"]))
KeyColumnValues(df) ==
    {df[i].MemberNo : i \in 1..Len(df)} \cup {df[i].IdentityNo : i \in 1..Len(df)}

\* rows of B whose MemberNo and IdentityNo are both outside nik_set
NotInA(dfB, nik_set) ==
    LET keep(r) == r.MemberNo \notin nik_set /\ r.IdentityNo \notin nik_set
    IN  SelectSeq(dfB, keep)

is_valid_3211_not_in_B(nik, nik_set) ==
    startswith(str(nik), SubPrefix) /\ nik \notin nik_set

Rows3211NotInB(dfA, nik_set) ==
    LET keep(r) == is_valid_3211_not_in_B(r.MemberNo, nik_set)
                   \/ is_valid_3211_not_in_B(r.IdentityNo, nik_set)
    IN  SelectSeq(dfA, keep)

(* Inputs of app_anggota.py *)

Nik3211a == S(SubPrefix \o Rep("0", 11) \o <<"1">>)
Nik3201b == S(<<"3", "2", "0", "1">> \o Rep("0", 11) \o <<"2">>)
Short3211 == S(SubPrefix \o Rep("0", 10) \o <<"9">>)
Dash == S(<<"-">>)
Padded3211c == S(<<" ">> \o SubPrefix \o Rep("0", 11) \o <<"3", " ">>)

\* key-column cells of File A and of File B
MemberPool == {Nik3211a, Nik3201b, Dash, Padded3211c}
IdentityPool == {NaN, Nik3211a, Short3211}
MemberPoolB == {Nik3211a, Nik3201b, Dash}
IdentityPoolB == {NaN, Nik3211a}

\* CreateDate of the record at position i: day i, every third one unparseable
DateAt(i) == IF i % 3 = 2 THEN BadStamp ELSE Stamp(i)

SeqsUpTo(set, n) == UNION {[1..k -> set] : k \in 0..n}

\* CreateDate cells: timestamps on days 1 to 3, and text that does not parse
DatePool == {Stamp(1), Stamp(2), Stamp(3), BadStamp}
\* values of the four date inputs
StartDays == {1, 2}
EndDays == {2, 3}

\* the two uploads with every required column and one more
Upload1 == [name |-> "a.xlsx", columns |-> {"MemberNo", "IdentityNo", "CreateDate", "Name"}]
Upload2 == [name |-> "b.xlsx", columns |-> {"MemberNo", "IdentityNo", "CreateDate", "Name"}]

\* column sets of an uploaded sheet: any of the required columns may be absent
ColumnSets == {cs \cup {"Name"} : cs \in SUBSET {"MemberNo", "IdentityNo", "CreateDate"}}

\* the cell of a column the sheet does not have
WithColumns(tbl, columns) ==
    [i \in 1..Len(tbl) |->
        [idx |-> tbl[i].idx,
         MemberNo |-> IF "MemberNo" \in columns THEN tbl[i].MemberNo ELSE NoColumn,
         IdentityNo |-> IF "IdentityNo" \in columns THEN tbl[i].IdentityNo ELSE NoColumn,
         CreateDate |-> IF "CreateDate" \in columns THEN tbl[i].CreateDate ELSE NoColumn,
         date |-> NoColumn]]

\* a table whose records all carry the same valid MemberNo, with the given CreateDate cells
MakeDatedTable(dates) ==
    [i \in 1..Len(dates) |->
        [idx |-> i, MemberNo |-> Nik3211a, IdentityNo |-> NaN,
         CreateDate |-> dates[i], date |-> NoColumn]]

KeyPairs == [m : MemberPool, id : IdentityPool]
KeyPairsB == [m : MemberPoolB, id : IdentityPoolB]

MakeTable(pairs) ==
    [i \in 1..Len(pairs) |->
        [idx |-> i, MemberNo |-> pairs[i].m, IdentityNo |-> pairs[i].id,
         CreateDate |-> DateAt(i), date |-> NoColumn]]

-----------------------------------------------------------------------------
(* src/app.py: the NIK normaliser *)

NoneVal == [kind |-> "none", s |-> <<>>]

\* pd.isna / Series.notna on one cell
isna(v) == v.kind \in {"nan", "none"}

\* Python str(value) of a cell that may be None
pystr(v) == IF v.kind = "none" THEN <<"N", "o", "n", "e">> ELSE str(v)

only_digits(v) ==
    IF v.kind = "none" \/ v.kind = "nan" THEN <<>>
    ELSE SelectChars(pystr(v), AsciiDigits)

normalize_nik_any_prefix(v) ==
    LET digits == only_digits(v)
    IN  IF Len(digits) = NikLen THEN S(digits) ELSE NoneVal

normalize_nik(v) ==
    LET digits == only_digits(v)
    IN  IF Len(digits) = NikLen /\ startswith(digits, <<"3">>) THEN S(digits) ELSE NoneVal

-----------------------------------------------------------------------------
(* src/app.py: tables with named columns, and the cleaning pass *)

\* a table is [isnone, columns, rows]; a row is [idx, cells], cells in column order
NoneTable == [isnone |-> TRUE, columns |-> <<>>, rows |-> <<>>]
Table(cols, rows) == [isnone |-> FALSE, columns |-> cols, rows |-> rows]

HasCol(t, name) == \E c \in 1..Len(t.columns) : t.columns[c] = name
ColPos(t, name) == CHOOSE c \in 1..Len(t.columns) : t.columns[c] = name

\* t[name] of one row
Cell(t, r, name) == r.cells[ColPos(t, name)]

\* t[name] = vals, one value per row: overwrite the column in place, or append it
SetCol(t, name, vals) ==
    IF HasCol(t, name)
    THEN [t EXCEPT !.rows = [i \in 1..Len(t.rows) |->
             [t.rows[i] EXCEPT !.cells[ColPos(t, name)] = vals[i]]]]
    ELSE [t EXCEPT !.columns = Append(@, name),
                   !.rows = [i \in 1..Len(t.rows) |->
                       [t.rows[i] EXCEPT !.cells = Append(@, vals[i])]]]

\* t[names]: the named columns, in the order given
TakeCols(t, names) ==
    [t EXCEPT !.columns = names,
              !.rows = [i \in 1..Len(t.rows) |->
                  [t.rows[i] EXCEPT !.cells =
                      [c \in 1..Len(names) |-> t.rows[i].cells[ColPos(t, names[c])]]]]]

\* t.loc[mask], mask one boolean per row
LocRows(t, mask) ==
    LET pos == SelectSeq([i \in 1..Len(t.rows) |-> i], LAMBDA i : mask[i])
    IN  [t EXCEPT !.rows = [k \in 1..Len(pos) |-> t.rows[pos[k]]]]

endswith(s, p) == Len(s) >= Len(p) /\ SubSeq(s, Len(s) - Len(p) + 1, Len(s)) = p

TidakAda == <<"<", "T", "i", "d", "a", "k", " ", "A", "d", "a", ">">>
cMemberNo_clean == <<"M", "e", "m", "b", "e", "r", "N", "o", "_", "c", "l", "e", "a", "n">>
cIdentityNo_clean == <<"I", "d", "e", "n", "t", "i", "t", "y", "N", "o", "_", "c", "l", "e", "a", "n">>
cNIK == <<"N", "I", "K">>
sfx_clean == <<"_", "c", "l", "e", "a", "n">>

\* DataFrame.drop_duplicates(subset = ["NIK"], keep = "last")
drop_duplicates_last(t) ==
    LET later(i) == \E j \in (i + 1)..Len(t.rows) :
                        Cell(t, t.rows[j], cNIK) = Cell(t, t.rows[i], cNIK)
        pos == SelectSeq([i \in 1..Len(t.rows) |-> i], LAMBDA i : ~later(i))
    IN  [t EXCEPT !.rows = [k \in 1..Len(pos) |-> t.rows[pos[k]]]]

\* DataFrame.drop_duplicates(subset = ["NIK"], keep = "first")
drop_duplicates_first(t) ==
    LET earlier(i) == \E j \in 1..(i - 1) :
                          Cell(t, t.rows[j], cNIK) = Cell(t, t.rows[i], cNIK)
        pos == SelectSeq([i \in 1..Len(t.rows) |-> i], LAMBDA i : ~earlier(i))
    IN  [t EXCEPT !.rows = [k \in 1..Len(pos) |-> t.rows[pos[k]]]]

\* clean_with_nik up to df_clean = work.loc[mask_valid]; both *_clean columns set
valid_rows_both(t, mcol, icol) ==
    LET n == Len(t.rows)
        w1 == SetCol(t, cMemberNo_clean,
                  [i \in 1..n |-> IF mcol # TidakAda
                                  THEN normalize_nik(Cell(t, t.rows[i], mcol))
                                  ELSE NoneVal])
        work == SetCol(w1, cIdentityNo_clean,
                  [i \in 1..n |-> IF icol # TidakAda
                                  THEN normalize_nik(Cell(w1, w1.rows[i], icol))
                                  ELSE NoneVal])
        mask_valid == [i \in 1..n |->
                          ~isna(Cell(work, work.rows[i], cMemberNo_clean))
                          /\ ~isna(Cell(work, work.rows[i], cIdentityNo_clean))]
    IN  LocRows(work, mask_valid)

valid_rows(t, mcol, icol) ==
    LET n == Len(t.rows)
        w1 == SetCol(t, cMemberNo_clean,
                  [i \in 1..n |-> IF mcol # TidakAda
                                  THEN normalize_nik(Cell(t, t.rows[i], mcol))
                                  ELSE NoneVal])
        work == SetCol(w1, cIdentityNo_clean,
                  [i \in 1..n |-> IF icol # TidakAda
                                  THEN normalize_nik(Cell(w1, w1.rows[i], icol))
                                  ELSE NoneVal])
        mask_valid == [i \in 1..n |->
                          ~isna(Cell(work, work.rows[i], cMemberNo_clean))
                          \/ ~isna(Cell(work, work.rows[i], cIdentityNo_clean))]
    IN  LocRows(work, mask_valid)

\* Series.combine_first on one row
combine_first(a, b) == IF ~isna(a) THEN a ELSE b

clean_with_nik(t, mcol, icol, clean, dedup) ==
    IF t.isnone THEN NoneTable
    ELSE IF ~clean \/ (mcol = TidakAda /\ icol = TidakAda) THEN NoneTable
    ELSE LET kept == valid_rows(t, mcol, icol)
             withNik == SetCol(kept, cNIK,
                          [i \in 1..Len(kept.rows) |->
                              combine_first(Cell(kept, kept.rows[i], cMemberNo_clean),
                                            Cell(kept, kept.rows[i], cIdentityNo_clean))])
             front_cols == <<cNIK>>
             other_cols == SelectSeq(withNik.columns,
                               LAMBDA c : c # cNIK /\ ~endswith(c, sfx_clean))
             ordered == TakeCols(withNik, front_cols \o other_cols)
         IN  IF dedup THEN drop_duplicates_first(ordered) ELSE ordered

\* set(df["NIK"].dropna().astype(str).unique())
unique_niks(t) ==
    {str(Cell(t, t.rows[i], cNIK)) : i \in {i \in 1..Len(t.rows) : ~isna(Cell(t, t.rows[i], cNIK))}}

\* df[df["NIK"].isin(niks)], the NIK column in front
rows_with_nik_in(t, niks) ==
    LET picked == LocRows(t, [i \in 1..Len(t.rows) |->
                                 /\ ~isna(Cell(t, t.rows[i], cNIK))
                                 /\ str(Cell(t, t.rows[i], cNIK)) \in niks])
        front_cols == <<cNIK>>
        other_cols == SelectSeq(picked.columns, LAMBDA c : c # cNIK)
    IN  TakeCols(picked, front_cols \o other_cols)

-----------------------------------------------------------------------------
(* Python strings: lower() and comparison by code point *)

UpperCase == <<"A", "B", "C", "D", "E", "F", "G", "H", "I", "J", "K", "L", "M",
               "N", "O", "P", "Q", "R", "S", "T", "U", "V", "W", "X", "Y", "Z">>
LowerCase == <<"a", "b", "c", "d", "e", "f", "g", "h", "i", "j", "k", "l", "m",
               "n", "o", "p", "q", "r", "s", "t", "u", "v", "w", "x", "y", "z">>

UpperSet == {UpperCase[i] : i \in 1..Len(UpperCase)}
LowerTable == [u \in UpperSet |-> LowerCase[CHOOSE i \in 1..Len(UpperCase) : UpperCase[i] = u]]

LowerChar(c) == IF c \in UpperSet THEN LowerTable[c] ELSE c

\* str.lower
lower(s) == [i \in 1..Len(s) |-> LowerChar(s[i])]

\* the characters of the model in code-point order
CodePointOrder ==
    <<"\t", " ", "#", "(", ")", "-", ".", "/">>
    \o <<"0", "1", "2", "3", "4", "5", "6", "7", "8", "9", "<", ">">>
    \o UpperCase \o <<"_">> \o LowerCase \o <<ArabicThree>>

ord(c) == CHOOSE i \in 1..Len(CodePointOrder) : CodePointOrder[i] = c

\* s < t for two Python strings
RECURSIVE StrLess(_, _)
StrLess(s, t) ==
    IF t = <<>> THEN FALSE
    ELSE IF s = <<>> THEN TRUE
    ELSE IF Head(s) = Head(t) THEN StrLess(Tail(s), Tail(t))
    ELSE ord(Head(s)) < ord(Head(t))

-----------------------------------------------------------------------------
(* difflib.SequenceMatcher and get_close_matches (Python standard library, as *)
(* called from _pick_source_col); no junk, and autojunk needs 200 characters  *)

Min(x, y) == IF x <= y THEN x ELSE y

CharsOf(s) == {s[i] : i \in 1..Len(s)}
CountOf(s, c) == Cardinality({i \in 1..Len(s) : s[i] = c})

\* characters a and b share, counted with multiplicity
RECURSIVE QuickMatches(_, _, _)
QuickMatches(chars, a, b) ==
    IF chars = {} THEN 0
    ELSE LET c == CHOOSE x \in chars : TRUE
         IN  Min(CountOf(a, c), CountOf(b, c)) + QuickMatches(chars \ {c}, a, b)

\* length of the common run of a from i and b from j, inside a[..ahi], b[..bhi]
RECURSIVE RunLen(_, _, _, _, _, _)
RunLen(a, b, i, j, ahi, bhi) ==
    IF i <= ahi /\ j <= bhi /\ a[i] = b[j] THEN 1 + RunLen(a, b, i + 1, j + 1, ahi, bhi)
    ELSE 0

\* SequenceMatcher.find_longest_match on a[alo..ahi], b[blo..bhi]: the longest
\* common block, the one starting earliest in a, then earliest in b
find_longest_match(a, b, alo, ahi, blo, bhi) ==
    LET starts == (alo..ahi) \X (blo..bhi)
        len == [p \in starts |-> RunLen(a, b, p[1], p[2], ahi, bhi)]
        best == CHOOSE p \in starts :
                    \A q \in starts :
                        \/ len[q] < len[p]
                        \/ len[q] = len[p] /\ (p[1] < q[1] \/ (p[1] = q[1] /\ p[2] <= q[2]))
    IN  [i |-> best[1], j |-> best[2], size |-> len[best]]

\* sum of the sizes of SequenceMatcher.get_matching_blocks
RECURSIVE MatchingChars(_, _, _, _, _, _)
MatchingChars(a, b, alo, ahi, blo, bhi) ==
    IF alo > ahi \/ blo > bhi THEN 0
    ELSE LET m == find_longest_match(a, b, alo, ahi, blo, bhi)
         IN  IF m.size = 0 THEN 0
             ELSE m.size
                  + MatchingChars(a, b, alo, m.i - 1, blo, m.j - 1)
                  + MatchingChars(a, b, m.i + m.size, ahi, m.j + m.size, bhi)

\* a ratio 2.0 * matches / length is kept as the pair [num, den]; 1.0 for length 0
calculate_ratio(matches, length) ==
    IF length > 0 THEN [num |-> 2 * matches, den |-> length] ELSE [num |-> 1, den |-> 1]

real_quick_ratio(a, b) == calculate_ratio(Min(Len(a), Len(b)), Len(a) + Len(b))

quick_ratio(a, b) ==
    calculate_ratio(QuickMatches(CharsOf(a) \cap CharsOf(b), a, b), Len(a) + Len(b))

ratio(a, b) == calculate_ratio(MatchingChars(a, b, 1, Len(a), 1, Len(b)), Len(a) + Len(b))

CutoffPercent == 85

\* r >= cutoff
AtLeastCutoff(r) == 100 * r.num >= CutoffPercent * r.den

RatioLess(r, q) == r.num * q.den < q.num * r.den
RatioEq(r, q) == r.num * q.den = q.num * r.den

\* the tuple (score, x) compares below (score, y)
ScoredLess(x, y, word) ==
    \/ RatioLess(ratio(x, word), ratio(y, word))
    \/ RatioEq(ratio(x, word), ratio(y, word)) /\ StrLess(x, y)

\* the possibilities that pass the three ratio tests
CloseEnough(word, possibilities) ==
    {x \in {possibilities[i] : i \in 1..Len(possibilities)} :
        /\ AtLeastCutoff(real_quick_ratio(x, word))
        /\ AtLeastCutoff(quick_ratio(x, word))
        /\ AtLeastCutoff(ratio(x, word))}

\* get_close_matches(word, possibilities, n = 1, cutoff = 0.85): heapq.nlargest(1, ...)
\* is the maximum of the (score, x) tuples
get_close_matches(word, possibilities) ==
    LET close == CloseEnough(word, possibilities)
    IN  IF close = {} THEN <<>>
        ELSE <<CHOOSE x \in close : \A y \in close : ~ScoredLess(x, y, word)>>

-----------------------------------------------------------------------------
(* src/app.py: the template, the builtin mapping and the synonyms *)

\* the 49 template fields, in order
TEMPLATE_ORDER == <<
    \* NO
    <<"N", "O">>,
    \* NO ANGGOTA
    <<"N", "O", " ", "A", "N", "G", "G", "O", "T", "A">>,
    \* NAMA
    <<"N", "A", "M", "A">>,
    \* TEMPAT LAHIR
    <<"T", "E", "M", "P", "A", "T", " ", "L", "A", "H", "I", "R">>,
    \* TANGGAL LAHIR
    <<"T", "A", "N", "G", "G", "A", "L", " ", "L", "A", "H", "I", "R">>,
    \* ALAMAT SESUAI KTP
    <<"A", "L", "A", "M", "A", "T", " ", "S", "E", "S", "U", "A", "I", " ", "K", "T", "P">>,
    \* KECAMATAN SESUAI KTP
    <<"K", "E", "C", "A", "M", "A", "T", "A", "N", " ", "S", "E", "S", "U", "A", "I", " ", "K", "T", "P">>,
    \* KELURAHAN SESUAI KTP
    <<"K", "E", "L", "U", "R", "A", "H", "A", "N", " ", "S", "E", "S", "U", "A", "I", " ", "K", "T", "P">>,
    \* RT SESUAI KTP
    <<"R", "T", " ", "S", "E", "S", "U", "A", "I", " ", "K", "T", "P">>,
    \* RW SESUAI KTP
    <<"R", "W", " ", "S", "E", "S", "U", "A", "I", " ", "K", "T", "P">>,
    \* PROPINSI SESUAI KTP
    <<"P", "R", "O", "P", "I", "N", "S", "I", " ", "S", "E", "S", "U", "A", "I", " ", "K", "T", "P">>,
    \* KABUPATEN/KOTA SESUAI KTP
    <<"K", "A", "B", "U", "P", "A", "T", "E", "N", "/", "K", "O", "T", "A", " ", "S", "E", "S", "U", "A", "I", " ", "K", "T", "P">>,
    \* ALAMAT TEMPAT TINGGAL SEKARANG
    <<"A", "L", "A", "M", "A", "T", " ", "T", "E", "M", "P", "A", "T", " ", "T", "I", "N", "G", "G", "A", "L", " ", "S", "E", "K", "A", "R", "A", "N", "G">>,
    \* KECAMATAN SEKARANG
    <<"K", "E", "C", "A", "M", "A", "T", "A", "N", " ", "S", "E", "K", "A", "R", "A", "N", "G">>,
    \* KELURAHAN SEKARANG
    <<"K", "E", "L", "U", "R", "A", "H", "A", "N", " ", "S", "E", "K", "A", "R", "A", "N", "G">>,
    \* RT SEKARANG
    <<"R", "T", " ", "S", "E", "K", "A", "R", "A", "N", "G">>,
    \* RW SEKARANG
    <<"R", "W", " ", "S", "E", "K", "A", "R", "A", "N", "G">>,
    \* PROPINSI SEKARANG
    <<"P", "R", "O", "P", "I", "N", "S", "I", " ", "S", "E", "K", "A", "R", "A", "N", "G">>,
    \* KABUPATEN/KOTA SEKARANG
    <<"K", "A", "B", "U", "P", "A", "T", "E", "N", "/", "K", "O", "T", "A", " ", "S", "E", "K", "A", "R", "A", "N", "G">>,
    \* NO. HP
    <<"N", "O", ".", " ", "H", "P">>,
    \* NO. TELP RUMAH
    <<"N", "O", ".", " ", "T", "E", "L", "P", " ", "R", "U", "M", "A", "H">>,
    \* JENIS IDENTITAS
    <<"J", "E", "N", "I", "S", " ", "I", "D", "E", "N", "T", "I", "T", "A", "S">>,
    \* NO. IDENTITAS
    <<"N", "O", ".", " ", "I", "D", "E", "N", "T", "I", "T", "A", "S">>,
    \* JENIS KELAMIN
    <<"J", "E", "N", "I", "S", " ", "K", "E", "L", "A", "M", "I", "N">>,
    \* AGAMA
    <<"A", "G", "A", "M", "A">>,
    \* PEKERJAAN
    <<"P", "E", "K", "E", "R", "J", "A", "A", "N">>,
    \* IBU KANDUNG
    <<"I", "B", "U", " ", "K", "A", "N", "D", "U", "N", "G">>,
    \* ALAMAT EMAIL
    <<"A", "L", "A", "M", "A", "T", " ", "E", "M", "A", "I", "L">>,
    \* JENIS ANGGOTA
    <<"J", "E", "N", "I", "S", " ", "A", "N", "G", "G", "O", "T", "A">>,
    \* PENDIDIKAN TERAKHIR
    <<"P", "E", "N", "D", "I", "D", "I", "K", "A", "N", " ", "T", "E", "R", "A", "K", "H", "I", "R">>,
    \* STATUS PERKAWINAN
    <<"S", "T", "A", "T", "U", "S", " ", "P", "E", "R", "K", "A", "W", "I", "N", "A", "N">>,
    \* TANGGAL PENDAFTARAN
    <<"T", "A", "N", "G", "G", "A", "L", " ", "P", "E", "N", "D", "A", "F", "T", "A", "R", "A", "N">>,
    \* TANGGAL AKHIR BERLAKU
    <<"T", "A", "N", "G", "G", "A", "L", " ", "A", "K", "H", "I", "R", " ", "B", "E", "R", "L", "A", "K", "U">>,
    \* JENIS PERMOHONAN
    <<"J", "E", "N", "I", "S", " ", "P", "E", "R", "M", "O", "H", "O", "N", "A", "N">>,
    \* STATUS ANGGOTA
    <<"S", "T", "A", "T", "U", "S", " ", "A", "N", "G", "G", "O", "T", "A">>,
    \* NAMA INSTITUSI
    <<"N", "A", "M", "A", " ", "I", "N", "S", "T", "I", "T", "U", "S", "I">>,
    \* ALAMAT INSTITUSI
    <<"A", "L", "A", "M", "A", "T", " ", "I", "N", "S", "T", "I", "T", "U", "S", "I">>,
    \* NO TELP INSTITUSI
    <<"N", "O", " ", "T", "E", "L", "P", " ", "I", "N", "S", "T", "I", "T", "U", "S", "I">>,
    \* NAMA (KEADAAN DARURAT)
    <<"N", "A", "M", "A", " ", "(", "K", "E", "A", "D", "A", "A", "N", " ", "D", "A", "R", "U", "R", "A", "T", ")">>,
    \* ALAMAT (KEADAAN DARURAT)
    <<"A", "L", "A", "M", "A", "T", " ", "(", "K", "E", "A", "D", "A", "A", "N", " ", "D", "A", "R", "U", "R", "A", "T", ")">>,
    \* NO TELP (KEADAAN DARURAT)
    <<"N", "O", " ", "T", "E", "L", "P", " ", "(", "K", "E", "A", "D", "A", "A", "N", " ", "D", "A", "R", "U", "R", "A", "T", ")">>,
    \* STATUS HUBUNGAN (DARURAT)
    <<"S", "T", "A", "T", "U", "S", " ", "H", "U", "B", "U", "N", "G", "A", "N", " ", "(", "D", "A", "R", "U", "R", "A", "T", ")">>,
    \* UNIT KERJA
    <<"U", "N", "I", "T", " ", "K", "E", "R", "J", "A">>,
    \* TAHUN AJARAN
    <<"T", "A", "H", "U", "N", " ", "A", "J", "A", "R", "A", "N">>,
    \* FAKULTAS
    <<"F", "A", "K", "U", "L", "T", "A", "S">>,
    \* JURUSAN
    <<"J", "U", "R", "U", "S", "A", "N">>,
    \* PROGRAM STUDI
    <<"P", "R", "O", "G", "R", "A", "M", " ", "S", "T", "U", "D", "I">>,
    \* KELAS SISWA
    <<"K", "E", "L", "A", "S", " ", "S", "I", "S", "W", "A">>,
    \* PHOTO URL
    <<"P", "H", "O", "T", "O", " ", "U", "R", "L">>
>>

\* one entry per key, in the order of the dict literal
MAPPING_BUILTIN == <<
    \* NO: kab ID, disp ID
    [key |-> <<"N", "O">>,
     kab |-> <<"I", "D">>,
     disp |-> <<"I", "D">>],
    \* NO ANGGOTA: kab MemberNo, disp MemberNo
    [key |-> <<"N", "O", " ", "A", "N", "G", "G", "O", "T", "A">>,
     kab |-> <<"M", "e", "m", "b", "e", "r", "N", "o">>,
     disp |-> <<"M", "e", "m", "b", "e", "r", "N", "o">>],
    \* NAMA: kab Fullname, disp Fullname
    [key |-> <<"N", "A", "M", "A">>,
     kab |-> <<"F", "u", "l", "l", "n", "a", "m", "e">>,
     disp |-> <<"F", "u", "l", "l", "n", "a", "m", "e">>],
    \* TEMPAT LAHIR: kab PlaceOfBirth, disp PlaceOfBirth
    [key |-> <<"T", "E", "M", "P", "A", "T", " ", "L", "A", "H", "I", "R">>,
     kab |-> <<"P", "l", "a", "c", "e", "O", "f", "B", "i", "r", "t", "h">>,
     disp |-> <<"P", "l", "a", "c", "e", "O", "f", "B", "i", "r", "t", "h">>],
    \* TANGGAL LAHIR: kab DateOfBirth, disp DateOfBirth
    [key |-> <<"T", "A", "N", "G", "G", "A", "L", " ", "L", "A", "H", "I", "R">>,
     kab |-> <<"D", "a", "t", "e", "O", "f", "B", "i", "r", "t", "h">>,
     disp |-> <<"D", "a", "t", "e", "O", "f", "B", "i", "r", "t", "h">>],
    \* ALAMAT SESUAI KTP: kab Address, disp Address
    [key |-> <<"A", "L", "A", "M", "A", "T", " ", "S", "E", "S", "U", "A", "I", " ", "K", "T", "P">>,
     kab |-> <<"A", "d", "d", "r", "e", "s", "s">>,
     disp |-> <<"A", "d", "d", "r", "e", "s", "s">>],
    \* KECAMATAN SESUAI KTP: kab Kecamatan, disp Kecamatan
    [key |-> <<"K", "E", "C", "A", "M", "A", "T", "A", "N", " ", "S", "E", "S", "U", "A", "I", " ", "K", "T", "P">>,
     kab |-> <<"K", "e", "c", "a", "m", "a", "t", "a", "n">>,
     disp |-> <<"K", "e", "c", "a", "m", "a", "t", "a", "n">>],
    \* KELURAHAN SESUAI KTP: kab Kelurahan, disp Kelurahan
    [key |-> <<"K", "E", "L", "U", "R", "A", "H", "A", "N", " ", "S", "E", "S", "U", "A", "I", " ", "K", "T", "P">>,
     kab |-> <<"K", "e", "l", "u", "r", "a", "h", "a", "n">>,
     disp |-> <<"K", "e", "l", "u", "r", "a", "h", "a", "n">>],
    \* RT SESUAI KTP: kab RT, disp RT
    [key |-> <<"R", "T", " ", "S", "E", "S", "U", "A", "I", " ", "K", "T", "P">>,
     kab |-> <<"R", "T">>,
     disp |-> <<"R", "T">>],
    \* RW SESUAI KTP: kab RW, disp RW
    [key |-> <<"R", "W", " ", "S", "E", "S", "U", "A", "I", " ", "K", "T", "P">>,
     kab |-> <<"R", "W">>,
     disp |-> <<"R", "W">>],
    \* PROPINSI SESUAI KTP: kab Province, disp Province
    [key |-> <<"P", "R", "O", "P", "I", "N", "S", "I", " ", "S", "E", "S", "U", "A", "I", " ", "K", "T", "P">>,
     kab |-> <<"P", "r", "o", "v", "i", "n", "c", "e">>,
     disp |-> <<"P", "r", "o", "v", "i", "n", "c", "e">>],
    \* KABUPATEN / KOTA SESUAI KTP: kab City, disp City
    [key |-> <<"K", "A", "B", "U", "P", "A", "T", "E", "N", " ", "/", " ", "K", "O", "T", "A", " ", "S", "E", "S", "U", "A", "I", " ", "K", "T", "P">>,
     kab |-> <<"C", "i", "t", "y">>,
     disp |-> <<"C", "i", "t", "y">>],
    \* ALAMAT TEMPAT TINGGAL SEKARANG: kab AddressNow, disp AddressNow
    [key |-> <<"A", "L", "A", "M", "A", "T", " ", "T", "E", "M", "P", "A", "T", " ", "T", "I", "N", "G", "G", "A", "L", " ", "S", "E", "K", "A", "R", "A", "N", "G">>,
     kab |-> <<"A", "d", "d", "r", "e", "s", "s", "N", "o", "w">>,
     disp |-> <<"A", "d", "d", "r", "e", "s", "s", "N", "o", "w">>],
    \* KECAMATAN SEKARANG: kab KecamatanNow, disp KecamatanNow
    [key |-> <<"K", "E", "C", "A", "M", "A", "T", "A", "N", " ", "S", "E", "K", "A", "R", "A", "N", "G">>,
     kab |-> <<"K", "e", "c", "a", "m", "a", "t", "a", "n", "N", "o", "w">>,
     disp |-> <<"K", "e", "c", "a", "m", "a", "t", "a", "n", "N", "o", "w">>],
    \* KELURAHAN SEKARANG: kab KelurahanNow, disp KelurahanNow
    [key |-> <<"K", "E", "L", "U", "R", "A", "H", "A", "N", " ", "S", "E", "K", "A", "R", "A", "N", "G">>,
     kab |-> <<"K", "e", "l", "u", "r", "a", "h", "a", "n", "N", "o", "w">>,
     disp |-> <<"K", "e", "l", "u", "r", "a", "h", "a", "n", "N", "o", "w">>],
    \* RT SEKARANG: kab RTNow, disp RTNow
    [key |-> <<"R", "T", " ", "S", "E", "K", "A", "R", "A", "N", "G">>,
     kab |-> <<"R", "T", "N", "o", "w">>,
     disp |-> <<"R", "T", "N", "o", "w">>],
    \* RW SEKARANG: kab RWNow, disp RWNow
    [key |-> <<"R", "W", " ", "S", "E", "K", "A", "R", "A", "N", "G">>,
     kab |-> <<"R", "W", "N", "o", "w">>,
     disp |-> <<"R", "W", "N", "o", "w">>],
    \* PROPINSI SEKARANG: kab ProvinceNow, disp ProvinceNow
    [key |-> <<"P", "R", "O", "P", "I", "N", "S", "I", " ", "S", "E", "K", "A", "R", "A", "N", "G">>,
     kab |-> <<"P", "r", "o", "v", "i", "n", "c", "e", "N", "o", "w">>,
     disp |-> <<"P", "r", "o", "v", "i", "n", "c", "e", "N", "o", "w">>],
    \* KABUPATEN / KOTA SEKARANG: kab CityNow, disp CityNow
    [key |-> <<"K", "A", "B", "U", "P", "A", "T", "E", "N", " ", "/", " ", "K", "O", "T", "A", " ", "S", "E", "K", "A", "R", "A", "N", "G">>,
     kab |-> <<"C", "i", "t", "y", "N", "o", "w">>,
     disp |-> <<"C", "i", "t", "y", "N", "o", "w">>],
    \* NO. HP: kab NoHp, disp NoHp
    [key |-> <<"N", "O", ".", " ", "H", "P">>,
     kab |-> <<"N", "o", "H", "p">>,
     disp |-> <<"N", "o", "H", "p">>],
    \* NO. TELP RUMAH: kab Phone, disp Phone
    [key |-> <<"N", "O", ".", " ", "T", "E", "L", "P", " ", "R", "U", "M", "A", "H">>,
     kab |-> <<"P", "h", "o", "n", "e">>,
     disp |-> <<"P", "h", "o", "n", "e">>],
    \* JENIS IDENTITAS: kab IdentityType_id, disp IdentityType_id
    [key |-> <<"J", "E", "N", "I", "S", " ", "I", "D", "E", "N", "T", "I", "T", "A", "S">>,
     kab |-> <<"I", "d", "e", "n", "t", "i", "t", "y", "T", "y", "p", "e", "_", "i", "d">>,
     disp |-> <<"I", "d", "e", "n", "t", "i", "t", "y", "T", "y", "p", "e", "_", "i", "d">>],
    \* NO. IDENTITAS: kab IdentityNo, disp IdentityNo
    [key |-> <<"N", "O", ".", " ", "I", "D", "E", "N", "T", "I", "T", "A", "S">>,
     kab |-> <<"I", "d", "e", "n", "t", "i", "t", "y", "N", "o">>,
     disp |-> <<"I", "d", "e", "n", "t", "i", "t", "y", "N", "o">>],
    \* JENIS KELAMIN: kab Sex_id, disp Sex_id
    [key |-> <<"J", "E", "N", "I", "S", " ", "K", "E", "L", "A", "M", "I", "N">>,
     kab |-> <<"S", "e", "x", "_", "i", "d">>,
     disp |-> <<"S", "e", "x", "_", "i", "d">>],
    \* AGAMA: kab Agama_id, disp Agama_id
    [key |-> <<"A", "G", "A", "M", "A">>,
     kab |-> <<"A", "g", "a", "m", "a", "_", "i", "d">>,
     disp |-> <<"A", "g", "a", "m", "a", "_", "i", "d">>],
    \* PEKERJAAN: kab Job_id, disp Job_id
    [key |-> <<"P", "E", "K", "E", "R", "J", "A", "A", "N">>,
     kab |-> <<"J", "o", "b", "_", "i", "d">>,
     disp |-> <<"J", "o", "b", "_", "i", "d">>],
    \* IBU KANDUNG: kab MotherMaidenName, disp MotherMaidenName
    [key |-> <<"I", "B", "U", " ", "K", "A", "N", "D", "U", "N", "G">>,
     kab |-> <<"M", "o", "t", "h", "e", "r", "M", "a", "i", "d", "e", "n", "N", "a", "m", "e">>,
     disp |-> <<"M", "o", "t", "h", "e", "r", "M", "a", "i", "d", "e", "n", "N", "a", "m", "e">>],
    \* ALAMAT EMAIL: kab Email, disp Email
    [key |-> <<"A", "L", "A", "M", "A", "T", " ", "E", "M", "A", "I", "L">>,
     kab |-> <<"E", "m", "a", "i", "l">>,
     disp |-> <<"E", "m", "a", "i", "l">>],
    \* JENIS ANGGOTA: kab JenisAnggota_id, disp JenisAnggota_id
    [key |-> <<"J", "E", "N", "I", "S", " ", "A", "N", "G", "G", "O", "T", "A">>,
     kab |-> <<"J", "e", "n", "i", "s", "A", "n", "g", "g", "o", "t", "a", "_", "i", "d">>,
     disp |-> <<"J", "e", "n", "i", "s", "A", "n", "g", "g", "o", "t", "a", "_", "i", "d">>],
    \* PENDIDIKAN TERAKHIR: kab EducationLevel_id, disp EducationLevel_id
    [key |-> <<"P", "E", "N", "D", "I", "D", "I", "K", "A", "N", " ", "T", "E", "R", "A", "K", "H", "I", "R">>,
     kab |-> <<"E", "d", "u", "c", "a", "t", "i", "o", "n", "L", "e", "v", "e", "l", "_", "i", "d">>,
     disp |-> <<"E", "d", "u", "c", "a", "t", "i", "o", "n", "L", "e", "v", "e", "l", "_", "i", "d">>],
    \* STATUS PERKAWINAN: kab MartialStatus_id, disp MartialStatus_id
    [key |-> <<"S", "T", "A", "T", "U", "S", " ", "P", "E", "R", "K", "A", "W", "I", "N", "A", "N">>,
     kab |-> <<"M", "a", "r", "t", "i", "a", "l", "S", "t", "a", "t", "u", "s", "_", "i", "d">>,
     disp |-> <<"M", "a", "r", "t", "i", "a", "l", "S", "t", "a", "t", "u", "s", "_", "i", "d">>],
    \* TANGGAL PENDAFTARAN: kab RegisterDate, disp RegisterDate
    [key |-> <<"T", "A", "N", "G", "G", "A", "L", " ", "P", "E", "N", "D", "A", "F", "T", "A", "R", "A", "N">>,
     kab |-> <<"R", "e", "g", "i", "s", "t", "e", "r", "D", "a", "t", "e">>,
     disp |-> <<"R", "e", "g", "i", "s", "t", "e", "r", "D", "a", "t", "e">>],
    \* TANGGAL AKHIR BERLAKU: kab EndDate, disp EndDate
    [key |-> <<"T", "A", "N", "G", "G", "A", "L", " ", "A", "K", "H", "I", "R", " ", "B", "E", "R", "L", "A", "K", "U">>,
     kab |-> <<"E", "n", "d", "D", "a", "t", "e">>,
     disp |-> <<"E", "n", "d", "D", "a", "t", "e">>],
    \* JENIS PERMOHONAN: kab JenisPermohonan_id, disp JenisPermohonan_id
    [key |-> <<"J", "E", "N", "I", "S", " ", "P", "E", "R", "M", "O", "H", "O", "N", "A", "N">>,
     kab |-> <<"J", "e", "n", "i", "s", "P", "e", "r", "m", "o", "h", "o", "n", "a", "n", "_", "i", "d">>,
     disp |-> <<"J", "e", "n", "i", "s", "P", "e", "r", "m", "o", "h", "o", "n", "a", "n", "_", "i", "d">>],
    \* STATUS ANGGOTA: kab StatusAnggota_id, disp StatusAnggota_id
    [key |-> <<"S", "T", "A", "T", "U", "S", " ", "A", "N", "G", "G", "O", "T", "A">>,
     kab |-> <<"S", "t", "a", "t", "u", "s", "A", "n", "g", "g", "o", "t", "a", "_", "i", "d">>,
     disp |-> <<"S", "t", "a", "t", "u", "s", "A", "n", "g", "g", "o", "t", "a", "_", "i", "d">>],
    \* NAMA INSTITUSI: kab InstitutionName, disp InstitutionName
    [key |-> <<"N", "A", "M", "A", " ", "I", "N", "S", "T", "I", "T", "U", "S", "I">>,
     kab |-> <<"I", "n", "s", "t", "i", "t", "u", "t", "i", "o", "n", "N", "a", "m", "e">>,
     disp |-> <<"I", "n", "s", "t", "i", "t", "u", "t", "i", "o", "n", "N", "a", "m", "e">>],
    \* ALAMAT INSTITUSI: kab InstitutionAddress, disp InstitutionAddress
    [key |-> <<"A", "L", "A", "M", "A", "T", " ", "I", "N", "S", "T", "I", "T", "U", "S", "I">>,
     kab |-> <<"I", "n", "s", "t", "i", "t", "u", "t", "i", "o", "n", "A", "d", "d", "r", "e", "s", "s">>,
     disp |-> <<"I", "n", "s", "t", "i", "t", "u", "t", "i", "o", "n", "A", "d", "d", "r", "e", "s", "s">>],
    \* NO TELP INSTITUSI: kab InstitutionPhone, disp InstitutionPhone
    [key |-> <<"N", "O", " ", "T", "E", "L", "P", " ", "I", "N", "S", "T", "I", "T", "U", "S", "I">>,
     kab |-> <<"I", "n", "s", "t", "i", "t", "u", "t", "i", "o", "n", "P", "h", "o", "n", "e">>,
     disp |-> <<"I", "n", "s", "t", "i", "t", "u", "t", "i", "o", "n", "P", "h", "o", "n", "e">>],
    \* NAMA (KEADAAN DARURAT): kab NamaDarurat, disp NamaDarurat
    [key |-> <<"N", "A", "M", "A", " ", "(", "K", "E", "A", "D", "A", "A", "N", " ", "D", "A", "R", "U", "R", "A", "T", ")">>,
     kab |-> <<"N", "a", "m", "a", "D", "a", "r", "u", "r", "a", "t">>,
     disp |-> <<"N", "a", "m", "a", "D", "a", "r", "u", "r", "a", "t">>],
    \* ALAMAT (KEADAAN DARURAT): kab AlamatDarurat, disp AlamatDarurat
    [key |-> <<"A", "L", "A", "M", "A", "T", " ", "(", "K", "E", "A", "D", "A", "A", "N", " ", "D", "A", "R", "U", "R", "A", "T", ")">>,
     kab |-> <<"A", "l", "a", "m", "a", "t", "D", "a", "r", "u", "r", "a", "t">>,
     disp |-> <<"A", "l", "a", "m", "a", "t", "D", "a", "r", "u", "r", "a", "t">>],
    \* NO TELP (KEADAAN DARURAT): kab TelpDarurat, disp TelpDarurat
    [key |-> <<"N", "O", " ", "T", "E", "L", "P", " ", "(", "K", "E", "A", "D", "A", "A", "N", " ", "D", "A", "R", "U", "R", "A", "T", ")">>,
     kab |-> <<"T", "e", "l", "p", "D", "a", "r", "u", "r", "a", "t">>,
     disp |-> <<"T", "e", "l", "p", "D", "a", "r", "u", "r", "a", "t">>],
    \* STATUS HUBUNGAN (DARURAT): kab StatusHubunganDarurat, disp StatusHubunganDarurat
    [key |-> <<"S", "T", "A", "T", "U", "S", " ", "H", "U", "B", "U", "N", "G", "A", "N", " ", "(", "D", "A", "R", "U", "R", "A", "T", ")">>,
     kab |-> <<"S", "t", "a", "t", "u", "s", "H", "u", "b", "u", "n", "g", "a", "n", "D", "a", "r", "u", "r", "a", "t">>,
     disp |-> <<"S", "t", "a", "t", "u", "s", "H", "u", "b", "u", "n", "g", "a", "n", "D", "a", "r", "u", "r", "a", "t">>],
    \* UNIT KERJA: kab UnitKerja_id, disp UnitKerja_id
    [key |-> <<"U", "N", "I", "T", " ", "K", "E", "R", "J", "A">>,
     kab |-> <<"U", "n", "i", "t", "K", "e", "r", "j", "a", "_", "i", "d">>,
     disp |-> <<"U", "n", "i", "t", "K", "e", "r", "j", "a", "_", "i", "d">>],
    \* TAHUN AJARAN: kab TahunAjaran, disp TahunAjaran
    [key |-> <<"T", "A", "H", "U", "N", " ", "A", "J", "A", "R", "A", "N">>,
     kab |-> <<"T", "a", "h", "u", "n", "A", "j", "a", "r", "a", "n">>,
     disp |-> <<"T", "a", "h", "u", "n", "A", "j", "a", "r", "a", "n">>],
    \* FAKULTAS: kab Fakultas_id, disp Fakultas_id
    [key |-> <<"F", "A", "K", "U", "L", "T", "A", "S">>,
     kab |-> <<"F", "a", "k", "u", "l", "t", "a", "s", "_", "i", "d">>,
     disp |-> <<"F", "a", "k", "u", "l", "t", "a", "s", "_", "i", "d">>],
    \* JURUSAN: kab Jurusan_id, disp Jurusan_id
    [key |-> <<"J", "U", "R", "U", "S", "A", "N">>,
     kab |-> <<"J", "u", "r", "u", "s", "a", "n", "_", "i", "d">>,
     disp |-> <<"J", "u", "r", "u", "s", "a", "n", "_", "i", "d">>],
    \* PROGRAM STUDI: kab ProgramStudi_id, disp ProgramStudi_id
    [key |-> <<"P", "R", "O", "G", "R", "A", "M", " ", "S", "T", "U", "D", "I">>,
     kab |-> <<"P", "r", "o", "g", "r", "a", "m", "S", "t", "u", "d", "i", "_", "i", "d">>,
     disp |-> <<"P", "r", "o", "g", "r", "a", "m", "S", "t", "u", "d", "i", "_", "i", "d">>],
    \* KELAS SISWA: kab Kelas_id, disp Kelas_id
    [key |-> <<"K", "E", "L", "A", "S", " ", "S", "I", "S", "W", "A">>,
     kab |-> <<"K", "e", "l", "a", "s", "_", "i", "d">>,
     disp |-> <<"K", "e", "l", "a", "s", "_", "i", "d">>],
    \* PHOTO URL: kab PhotoUrl, disp PhotoUrl
    [key |-> <<"P", "H", "O", "T", "O", " ", "U", "R", "L">>,
     kab |-> <<"P", "h", "o", "t", "o", "U", "r", "l">>,
     disp |-> <<"P", "h", "o", "t", "o", "U", "r", "l">>]
>>

\* one entry per key, in the order of the dict literal
SYNONYMS == <<
    \* NO: ID
    [key |-> <<"N", "O">>,
     syns |-> <<
         <<"I", "D">> >>],
    \* NO ANGGOTA: NIK, No KTP, No_KTP, IdentityNo, MemberNo
    [key |-> <<"N", "O", " ", "A", "N", "G", "G", "O", "T", "A">>,
     syns |-> <<
         <<"N", "I", "K">>,
         <<"N", "o", " ", "K", "T", "P">>,
         <<"N", "o", "_", "K", "T", "P">>,
         <<"I", "d", "e", "n", "t", "i", "t", "y", "N", "o">>,
         <<"M", "e", "m", "b", "e", "r", "N", "o">> >>],
    \* NAMA: Nama Lengkap, Nama, FullName, Name
    [key |-> <<"N", "A", "M", "A">>,
     syns |-> <<
         <<"N", "a", "m", "a", " ", "L", "e", "n", "g", "k", "a", "p">>,
         <<"N", "a", "m", "a">>,
         <<"F", "u", "l", "l", "N", "a", "m", "e">>,
         <<"N", "a", "m", "e">> >>],
    \* TEMPAT LAHIR: Tempat Lahir, Tmpt_Lahir, BirthPlace, PlaceOfBirth
    [key |-> <<"T", "E", "M", "P", "A", "T", " ", "L", "A", "H", "I", "R">>,
     syns |-> <<
         <<"T", "e", "m", "p", "a", "t", " ", "L", "a", "h", "i", "r">>,
         <<"T", "m", "p", "t", "_", "L", "a", "h", "i", "r">>,
         <<"B", "i", "r", "t", "h", "P", "l", "a", "c", "e">>,
         <<"P", "l", "a", "c", "e", "O", "f", "B", "i", "r", "t", "h">> >>],
    \* TANGGAL LAHIR: Tanggal Lahir, Tgl Lahir, Tgl_Lahir, BirthDate, DOB, dob
    [key |-> <<"T", "A", "N", "G", "G", "A", "L", " ", "L", "A", "H", "I", "R">>,
     syns |-> <<
         <<"T", "a", "n", "g", "g", "a", "l", " ", "L", "a", "h", "i", "r">>,
         <<"T", "g", "l", " ", "L", "a", "h", "i", "r">>,
         <<"T", "g", "l", "_", "L", "a", "h", "i", "r">>,
         <<"B", "i", "r", "t", "h", "D", "a", "t", "e">>,
         <<"D", "O", "B">>,
         <<"d", "o", "b">> >>],
    \* ALAMAT SESUAI KTP: Alamat, Address, AddressKTP, Address_KTP
    [key |-> <<"A", "L", "A", "M", "A", "T", " ", "S", "E", "S", "U", "A", "I", " ", "K", "T", "P">>,
     syns |-> <<
         <<"A", "l", "a", "m", "a", "t">>,
         <<"A", "d", "d", "r", "e", "s", "s">>,
         <<"A", "d", "d", "r", "e", "s", "s", "K", "T", "P">>,
         <<"A", "d", "d", "r", "e", "s", "s", "_", "K", "T", "P">> >>],
    \* KECAMATAN SESUAI KTP: Kecamatan, Kecamatan KTP, Kecamatan_KTP
    [key |-> <<"K", "E", "C", "A", "M", "A", "T", "A", "N", " ", "S", "E", "S", "U", "A", "I", " ", "K", "T", "P">>,
     syns |-> <<
         <<"K", "e", "c", "a", "m", "a", "t", "a", "n">>,
         <<"K", "e", "c", "a", "m", "a", "t", "a", "n", " ", "K", "T", "P">>,
         <<"K", "e", "c", "a", "m", "a", "t", "a", "n", "_", "K", "T", "P">> >>],
    \* KELURAHAN SESUAI KTP: Kelurahan, Kelurahan KTP, Kelurahan_KTP, Desa, Desa KTP, Desa_KTP
    [key |-> <<"K", "E", "L", "U", "R", "A", "H", "A", "N", " ", "S", "E", "S", "U", "A", "I", " ", "K", "T", "P">>,
     syns |-> <<
         <<"K", "e", "l", "u", "r", "a", "h", "a", "n">>,
         <<"K", "e", "l", "u", "r", "a", "h", "a", "n", " ", "K", "T", "P">>,
         <<"K", "e", "l", "u", "r", "a", "h", "a", "n", "_", "K", "T", "P">>,
         <<"D", "e", "s", "a">>,
         <<"D", "e", "s", "a", " ", "K", "T", "P">>,
         <<"D", "e", "s", "a", "_", "K", "T", "P">> >>],
    \* RT SESUAI KTP: RT, Rt, rt, RT KTP, RT_KTP
    [key |-> <<"R", "T", " ", "S", "E", "S", "U", "A", "I", " ", "K", "T", "P">>,
     syns |-> <<
         <<"R", "T">>,
         <<"R", "t">>,
         <<"r", "t">>,
         <<"R", "T", " ", "K", "T", "P">>,
         <<"R", "T", "_", "K", "T", "P">> >>],
    \* RW SESUAI KTP: RW, Rw, rw, RW KTP, RW_KTP
    [key |-> <<"R", "W", " ", "S", "E", "S", "U", "A", "I", " ", "K", "T", "P">>,
     syns |-> <<
         <<"R", "W">>,
         <<"R", "w">>,
         <<"r", "w">>,
         <<"R", "W", " ", "K", "T", "P">>,
         <<"R", "W", "_", "K", "T", "P">> >>],
    \* PROPINSI SESUAI KTP: Prov, Provinsi, Provinsi KTP, Provinsi_KTP, Propinsi, Province, Province KTP, Province_KTP
    [key |-> <<"P", "R", "O", "P", "I", "N", "S", "I", " ", "S", "E", "S", "U", "A", "I", " ", "K", "T", "P">>,
     syns |-> <<
         <<"P", "r", "o", "v">>,
         <<"P", "r", "o", "v", "i", "n", "s", "i">>,
         <<"P", "r", "o", "v", "i", "n", "s", "i", " ", "K", "T", "P">>,
         <<"P", "r", "o", "v", "i", "n", "s", "i", "_", "K", "T", "P">>,
         <<"P", "r", "o", "p", "i", "n", "s", "i">>,
         <<"P", "r", "o", "v", "i", "n", "c", "e">>,
         <<"P", "r", "o", "v", "i", "n", "c", "e", " ", "K", "T", "P">>,
         <<"P", "r", "o", "v", "i", "n", "c", "e", "_", "K", "T", "P">> >>],
    \* KABUPATEN / KOTA SESUAI KTP: Kab/Kota, Kabupaten/Kota, Kab / Kota, Kabupaten / Kota, Kabupaten, Kota, Kab_Kota, City, CityKTP, City KTP, City_KTP
    [key |-> <<"K", "A", "B", "U", "P", "A", "T", "E", "N", " ", "/", " ", "K", "O", "T", "A", " ", "S", "E", "S", "U", "A", "I", " ", "K", "T", "P">>,
     syns |-> <<
         <<"K", "a", "b", "/", "K", "o", "t", "a">>,
         <<"K", "a", "b", "u", "p", "a", "t", "e", "n", "/", "K", "o", "t", "a">>,
         <<"K", "a", "b", " ", "/", " ", "K", "o", "t", "a">>,
         <<"K", "a", "b", "u", "p", "a", "t", "e", "n", " ", "/", " ", "K", "o", "t", "a">>,
         <<"K", "a", "b", "u", "p", "a", "t", "e", "n">>,
         <<"K", "o", "t", "a">>,
         <<"K", "a", "b", "_", "K", "o", "t", "a">>,
         <<"C", "i", "t", "y">>,
         <<"C", "i", "t", "y", "K", "T", "P">>,
         <<"C", "i", "t", "y", " ", "K", "T", "P">>,
         <<"C", "i", "t", "y", "_", "K", "T", "P">> >>],
    \* ALAMAT TEMPAT TINGGAL SEKARANG: Alamat Sekarang, AlamatSekarang, Alamat_Sekarang, AlamatNow, Alamat_Now, AddressNow, Address_Now
    [key |-> <<"A", "L", "A", "M", "A", "T", " ", "T", "E", "M", "P", "A", "T", " ", "T", "I", "N", "G", "G", "A", "L", " ", "S", "E", "K", "A", "R", "A", "N", "G">>,
     syns |-> <<
         <<"A", "l", "a", "m", "a", "t", " ", "S", "e", "k", "a", "r", "a", "n", "g">>,
         <<"A", "l", "a", "m", "a", "t", "S", "e", "k", "a", "r", "a", "n", "g">>,
         <<"A", "l", "a", "m", "a", "t", "_", "S", "e", "k", "a", "r", "a", "n", "g">>,
         <<"A", "l", "a", "m", "a", "t", "N", "o", "w">>,
         <<"A", "l", "a", "m", "a", "t", "_", "N", "o", "w">>,
         <<"A", "d", "d", "r", "e", "s", "s", "N", "o", "w">>,
         <<"A", "d", "d", "r", "e", "s", "s", "_", "N", "o", "w">> >>],
    \* KECAMATAN SEKARANG: Kecamatan Sekarang, KecamatanSekarang, Kecamatan_Sekarang, KecamatanNow, Kecamatan_Now
    [key |-> <<"K", "E", "C", "A", "M", "A", "T", "A", "N", " ", "S", "E", "K", "A", "R", "A", "N", "G">>,
     syns |-> <<
         <<"K", "e", "c", "a", "m", "a", "t", "a", "n", " ", "S", "e", "k", "a", "r", "a", "n", "g">>,
         <<"K", "e", "c", "a", "m", "a", "t", "a", "n", "S", "e", "k", "a", "r", "a", "n", "g">>,
         <<"K", "e", "c", "a", "m", "a", "t", "a", "n", "_", "S", "e", "k", "a", "r", "a", "n", "g">>,
         <<"K", "e", "c", "a", "m", "a", "t", "a", "n", "N", "o", "w">>,
         <<"K", "e", "c", "a", "m", "a", "t", "a", "n", "_", "N", "o", "w">> >>],
    \* KELURAHAN SEKARANG: Kelurahan Sekarang, KelurahanSekarang, Kelurahan_Sekarang, KelurahanNow, Kelurahan_Now
    [key |-> <<"K", "E", "L", "U", "R", "A", "H", "A", "N", " ", "S", "E", "K", "A", "R", "A", "N", "G">>,
     syns |-> <<
         <<"K", "e", "l", "u", "r", "a", "h", "a", "n", " ", "S", "e", "k", "a", "r", "a", "n", "g">>,
         <<"K", "e", "l", "u", "r", "a", "h", "a", "n", "S", "e", "k", "a", "r", "a", "n", "g">>,
         <<"K", "e", "l", "u", "r", "a", "h", "a", "n", "_", "S", "e", "k", "a", "r", "a", "n", "g">>,
         <<"K", "e", "l", "u", "r", "a", "h", "a", "n", "N", "o", "w">>,
         <<"K", "e", "l", "u", "r", "a", "h", "a", "n", "_", "N", "o", "w">> >>],
    \* RT SEKARANG: RTSekarang, RT Sekarang, RT_Sekarang, RT Now, RTNow, RT_Now
    [key |-> <<"R", "T", " ", "S", "E", "K", "A", "R", "A", "N", "G">>,
     syns |-> <<
         <<"R", "T", "S", "e", "k", "a", "r", "a", "n", "g">>,
         <<"R", "T", " ", "S", "e", "k", "a", "r", "a", "n", "g">>,
         <<"R", "T", "_", "S", "e", "k", "a", "r", "a", "n", "g">>,
         <<"R", "T", " ", "N", "o", "w">>,
         <<"R", "T", "N", "o", "w">>,
         <<"R", "T", "_", "N", "o", "w">> >>],
    \* RW SEKARANG: RWSekarang, RW Sekarang, RW_Sekarang, RW Now, RWNow, RW_Now
    [key |-> <<"R", "W", " ", "S", "E", "K", "A", "R", "A", "N", "G">>,
     syns |-> <<
         <<"R", "W", "S", "e", "k", "a", "r", "a", "n", "g">>,
         <<"R", "W", " ", "S", "e", "k", "a", "r", "a", "n", "g">>,
         <<"R", "W", "_", "S", "e", "k", "a", "r", "a", "n", "g">>,
         <<"R", "W", " ", "N", "o", "w">>,
         <<"R", "W", "N", "o", "w">>,
         <<"R", "W", "_", "N", "o", "w">> >>],
    \* PROPINSI SEKARANG: ProvNow, ProvinsiNow, Provinsi Now, PropinsiNow, Propinsi Now, ProvinceNow, Province Now, Prov_Now, Provinsi_Now, Propinsi_Now, Province_Now
    [key |-> <<"P", "R", "O", "P", "I", "N", "S", "I", " ", "S", "E", "K", "A", "R", "A", "N", "G">>,
     syns |-> <<
         <<"P", "r", "o", "v", "N", "o", "w">>,
         <<"P", "r", "o", "v", "i", "n", "s", "i", "N", "o", "w">>,
         <<"P", "r", "o", "v", "i", "n", "s", "i", " ", "N", "o", "w">>,
         <<"P", "r", "o", "p", "i", "n", "s", "i", "N", "o", "w">>,
         <<"P", "r", "o", "p", "i", "n", "s", "i", " ", "N", "o", "w">>,
         <<"P", "r", "o", "v", "i", "n", "c", "e", "N", "o", "w">>,
         <<"P", "r", "o", "v", "i", "n", "c", "e", " ", "N", "o", "w">>,
         <<"P", "r", "o", "v", "_", "N", "o", "w">>,
         <<"P", "r", "o", "v", "i", "n", "s", "i", "_", "N", "o", "w">>,
         <<"P", "r", "o", "p", "i", "n", "s", "i", "_", "N", "o", "w">>,
         <<"P", "r", "o", "v", "i", "n", "c", "e", "_", "N", "o", "w">> >>],
    \* KABUPATEN / KOTA SEKARANG: Kab/Kota Sekarang, Kabupaten/Kota Sekarang, Kab / Kota Sekarang, Kabupaten / Kota Sekarang, KabupatenSekarang, KotaSekarang, Kab_Kota_Sekarang, City Now, CityNow, City_Now
    [key |-> <<"K", "A", "B", "U", "P", "A", "T", "E", "N", " ", "/", " ", "K", "O", "T", "A", " ", "S", "E", "K", "A", "R", "A", "N", "G">>,
     syns |-> <<
         <<"K", "a", "b", "/", "K", "o", "t", "a", " ", "S", "e", "k", "a", "r", "a", "n", "g">>,
         <<"K", "a", "b", "u", "p", "a", "t", "e", "n", "/", "K", "o", "t", "a", " ", "S", "e", "k", "a", "r", "a", "n", "g">>,
         <<"K", "a", "b", " ", "/", " ", "K", "o", "t", "a", " ", "S", "e", "k", "a", "r", "a", "n", "g">>,
         <<"K", "a", "b", "u", "p", "a", "t", "e", "n", " ", "/", " ", "K", "o", "t", "a", " ", "S", "e", "k", "a", "r", "a", "n", "g">>,
         <<"K", "a", "b", "u", "p", "a", "t", "e", "n", "S", "e", "k", "a", "r", "a", "n", "g">>,
         <<"K", "o", "t", "a", "S", "e", "k", "a", "r", "a", "n", "g">>,
         <<"K", "a", "b", "_", "K", "o", "t", "a", "_", "S", "e", "k", "a", "r", "a", "n", "g">>,
         <<"C", "i", "t", "y", " ", "N", "o", "w">>,
         <<"C", "i", "t", "y", "N", "o", "w">>,
         <<"C", "i", "t", "y", "_", "N", "o", "w">> >>],
    \* NO. HP: No HP, No. HP, HP, Phone, Telp, Mobile, No_Telp, No_HP
    [key |-> <<"N", "O", ".", " ", "H", "P">>,
     syns |-> <<
         <<"N", "o", " ", "H", "P">>,
         <<"N", "o", ".", " ", "H", "P">>,
         <<"H", "P">>,
         <<"P", "h", "o", "n", "e">>,
         <<"T", "e", "l", "p">>,
         <<"M", "o", "b", "i", "l", "e">>,
         <<"N", "o", "_", "T", "e", "l", "p">>,
         <<"N", "o", "_", "H", "P">> >>],
    \* NO. TELP RUMAH: Phone, Telp Rumah, Telp_Rumah
    [key |-> <<"N", "O", ".", " ", "T", "E", "L", "P", " ", "R", "U", "M", "A", "H">>,
     syns |-> <<
         <<"P", "h", "o", "n", "e">>,
         <<"T", "e", "l", "p", " ", "R", "u", "m", "a", "h">>,
         <<"T", "e", "l", "p", "_", "R", "u", "m", "a", "h">> >>],
    \* JENIS IDENTITAS: IdentityType_id, Jenis_ID, Jenis Identitas
    [key |-> <<"J", "E", "N", "I", "S", " ", "I", "D", "E", "N", "T", "I", "T", "A", "S">>,
     syns |-> <<
         <<"I", "d", "e", "n", "t", "i", "t", "y", "T", "y", "p", "e", "_", "i", "d">>,
         <<"J", "e", "n", "i", "s", "_", "I", "D">>,
         <<"J", "e", "n", "i", "s", " ", "I", "d", "e", "n", "t", "i", "t", "a", "s">> >>],
    \* NO. IDENTITAS: IdentityNo, No_ID, No. Identitas
    [key |-> <<"N", "O", ".", " ", "I", "D", "E", "N", "T", "I", "T", "A", "S">>,
     syns |-> <<
         <<"I", "d", "e", "n", "t", "i", "t", "y", "N", "o">>,
         <<"N", "o", "_", "I", "D">>,
         <<"N", "o", ".", " ", "I", "d", "e", "n", "t", "i", "t", "a", "s">> >>],
    \* JENIS KELAMIN: Jenis Kelamin, Jenis_Kelamin, JK, Gender, Sex
    [key |-> <<"J", "E", "N", "I", "S", " ", "K", "E", "L", "A", "M", "I", "N">>,
     syns |-> <<
         <<"J", "e", "n", "i", "s", " ", "K", "e", "l", "a", "m", "i", "n">>,
         <<"J", "e", "n", "i", "s", "_", "K", "e", "l", "a", "m", "i", "n">>,
         <<"J", "K">>,
         <<"G", "e", "n", "d", "e", "r">>,
         <<"S", "e", "x">> >>],
    \* AGAMA: Agama_id, Agama, Religion
    [key |-> <<"A", "G", "A", "M", "A">>,
     syns |-> <<
         <<"A", "g", "a", "m", "a", "_", "i", "d">>,
         <<"A", "g", "a", "m", "a">>,
         <<"R", "e", "l", "i", "g", "i", "o", "n">> >>],
    \* PEKERJAAN: Job_id, Job, Pekerjaan, Pekerjaan Saat Ini
    [key |-> <<"P", "E", "K", "E", "R", "J", "A", "A", "N">>,
     syns |-> <<
         <<"J", "o", "b", "_", "i", "d">>,
         <<"J", "o", "b">>,
         <<"P", "e", "k", "e", "r", "j", "a", "a", "n">>,
         <<"P", "e", "k", "e", "r", "j", "a", "a", "n", " ", "S", "a", "a", "t", " ", "I", "n", "i">> >>],
    \* IBU KANDUNG: MotherMaidenName, Nama Ibu Kandung
    [key |-> <<"I", "B", "U", " ", "K", "A", "N", "D", "U", "N", "G">>,
     syns |-> <<
         <<"M", "o", "t", "h", "e", "r", "M", "a", "i", "d", "e", "n", "N", "a", "m", "e">>,
         <<"N", "a", "m", "a", " ", "I", "b", "u", " ", "K", "a", "n", "d", "u", "n", "g">> >>],
    \* ALAMAT EMAIL: Email, E-mail
    [key |-> <<"A", "L", "A", "M", "A", "T", " ", "E", "M", "A", "I", "L">>,
     syns |-> <<
         <<"E", "m", "a", "i", "l">>,
         <<"E", "-", "m", "a", "i", "l">> >>],
    \* JENIS ANGGOTA: JenisAnggota_id, Jenis Anggota, Jenis_Anggota
    [key |-> <<"J", "E", "N", "I", "S", " ", "A", "N", "G", "G", "O", "T", "A">>,
     syns |-> <<
         <<"J", "e", "n", "i", "s", "A", "n", "g", "g", "o", "t", "a", "_", "i", "d">>,
         <<"J", "e", "n", "i", "s", " ", "A", "n", "g", "g", "o", "t", "a">>,
         <<"J", "e", "n", "i", "s", "_", "A", "n", "g", "g", "o", "t", "a">> >>],
    \* PENDIDIKAN TERAKHIR: EducationLevel_id, Pendidikan Terakhir, Pendidikan_Terakhir
    [key |-> <<"P", "E", "N", "D", "I", "D", "I", "K", "A", "N", " ", "T", "E", "R", "A", "K", "H", "I", "R">>,
     syns |-> <<
         <<"E", "d", "u", "c", "a", "t", "i", "o", "n", "L", "e", "v", "e", "l", "_", "i", "d">>,
         <<"P", "e", "n", "d", "i", "d", "i", "k", "a", "n", " ", "T", "e", "r", "a", "k", "h", "i", "r">>,
         <<"P", "e", "n", "d", "i", "d", "i", "k", "a", "n", "_", "T", "e", "r", "a", "k", "h", "i", "r">> >>],
    \* STATUS PERKAWINAN: MartialStatus_id, Status Perkawinan, Status_Perkawinan, Status Kawin, Status_Kawin
    [key |-> <<"S", "T", "A", "T", "U", "S", " ", "P", "E", "R", "K", "A", "W", "I", "N", "A", "N">>,
     syns |-> <<
         <<"M", "a", "r", "t", "i", "a", "l", "S", "t", "a", "t", "u", "s", "_", "i", "d">>,
         <<"S", "t", "a", "t", "u", "s", " ", "P", "e", "r", "k", "a", "w", "i", "n", "a", "n">>,
         <<"S", "t", "a", "t", "u", "s", "_", "P", "e", "r", "k", "a", "w", "i", "n", "a", "n">>,
         <<"S", "t", "a", "t", "u", "s", " ", "K", "a", "w", "i", "n">>,
         <<"S", "t", "a", "t", "u", "s", "_", "K", "a", "w", "i", "n">> >>],
    \* TANGGAL PENDAFTARAN: RegisterDate, Tgl_Daftar
    [key |-> <<"T", "A", "N", "G", "G", "A", "L", " ", "P", "E", "N", "D", "A", "F", "T", "A", "R", "A", "N">>,
     syns |-> <<
         <<"R", "e", "g", "i", "s", "t", "e", "r", "D", "a", "t", "e">>,
         <<"T", "g", "l", "_", "D", "a", "f", "t", "a", "r">> >>],
    \* TANGGAL AKHIR BERLAKU: EndDate, Tgl_Berakhir
    [key |-> <<"T", "A", "N", "G", "G", "A", "L", " ", "A", "K", "H", "I", "R", " ", "B", "E", "R", "L", "A", "K", "U">>,
     syns |-> <<
         <<"E", "n", "d", "D", "a", "t", "e">>,
         <<"T", "g", "l", "_", "B", "e", "r", "a", "k", "h", "i", "r">> >>],
    \* JENIS PERMOHONAN: JenisPermohonan_id, JenisPermohonan, Jenis Permohonan, Jenis_Permohonan
    [key |-> <<"J", "E", "N", "I", "S", " ", "P", "E", "R", "M", "O", "H", "O", "N", "A", "N">>,
     syns |-> <<
         <<"J", "e", "n", "i", "s", "P", "e", "r", "m", "o", "h", "o", "n", "a", "n", "_", "i", "d">>,
         <<"J", "e", "n", "i", "s", "P", "e", "r", "m", "o", "h", "o", "n", "a", "n">>,
         <<"J", "e", "n", "i", "s", " ", "P", "e", "r", "m", "o", "h", "o", "n", "a", "n">>,
         <<"J", "e", "n", "i", "s", "_", "P", "e", "r", "m", "o", "h", "o", "n", "a", "n">> >>],
    \* STATUS ANGGOTA: StatusAnggota_id, StatusAnggota, Status Anggota, Status_Anggota
    [key |-> <<"S", "T", "A", "T", "U", "S", " ", "A", "N", "G", "G", "O", "T", "A">>,
     syns |-> <<
         <<"S", "t", "a", "t", "u", "s", "A", "n", "g", "g", "o", "t", "a", "_", "i", "d">>,
         <<"S", "t", "a", "t", "u", "s", "A", "n", "g", "g", "o", "t", "a">>,
         <<"S", "t", "a", "t", "u", "s", " ", "A", "n", "g", "g", "o", "t", "a">>,
         <<"S", "t", "a", "t", "u", "s", "_", "A", "n", "g", "g", "o", "t", "a">> >>],
    \* NAMA INSTITUSI: InstitutionName, Institution_Name, Nama Institusi, Nama_Institusi
    [key |-> <<"N", "A", "M", "A", " ", "I", "N", "S", "T", "I", "T", "U", "S", "I">>,
     syns |-> <<
         <<"I", "n", "s", "t", "i", "t", "u", "t", "i", "o", "n", "N", "a", "m", "e">>,
         <<"I", "n", "s", "t", "i", "t", "u", "t", "i", "o", "n", "_", "N", "a", "m", "e">>,
         <<"N", "a", "m", "a", " ", "I", "n", "s", "t", "i", "t", "u", "s", "i">>,
         <<"N", "a", "m", "a", "_", "I", "n", "s", "t", "i", "t", "u", "s", "i">> >>],
    \* ALAMAT INSTITUSI: InstitutionAddress, Institution_Address, Alamat Institusi, Alamat_Institusi
    [key |-> <<"A", "L", "A", "M", "A", "T", " ", "I", "N", "S", "T", "I", "T", "U", "S", "I">>,
     syns |-> <<
         <<"I", "n", "s", "t", "i", "t", "u", "t", "i", "o", "n", "A", "d", "d", "r", "e", "s", "s">>,
         <<"I", "n", "s", "t", "i", "t", "u", "t", "i", "o", "n", "_", "A", "d", "d", "r", "e", "s", "s">>,
         <<"A", "l", "a", "m", "a", "t", " ", "I", "n", "s", "t", "i", "t", "u", "s", "i">>,
         <<"A", "l", "a", "m", "a", "t", "_", "I", "n", "s", "t", "i", "t", "u", "s", "i">> >>],
    \* NO TELP INSTITUSI: InstitutionPhone, Institution_Phone, Telp Institusi, Telp_Institusi
    [key |-> <<"N", "O", " ", "T", "E", "L", "P", " ", "I", "N", "S", "T", "I", "T", "U", "S", "I">>,
     syns |-> <<
         <<"I", "n", "s", "t", "i", "t", "u", "t", "i", "o", "n", "P", "h", "o", "n", "e">>,
         <<"I", "n", "s", "t", "i", "t", "u", "t", "i", "o", "n", "_", "P", "h", "o", "n", "e">>,
         <<"T", "e", "l", "p", " ", "I", "n", "s", "t", "i", "t", "u", "s", "i">>,
         <<"T", "e", "l", "p", "_", "I", "n", "s", "t", "i", "t", "u", "s", "i">> >>],
    \* NAMA (KEADAAN DARURAT): NamaDarurat, Nama Darurat, Nama_Darurat, EmergencyName, Emergency Name, Emergency_Name
    [key |-> <<"N", "A", "M", "A", " ", "(", "K", "E", "A", "D", "A", "A", "N", " ", "D", "A", "R", "U", "R", "A", "T", ")">>,
     syns |-> <<
         <<"N", "a", "m", "a", "D", "a", "r", "u", "r", "a", "t">>,
         <<"N", "a", "m", "a", " ", "D", "a", "r", "u", "r", "a", "t">>,
         <<"N", "a", "m", "a", "_", "D", "a", "r", "u", "r", "a", "t">>,
         <<"E", "m", "e", "r", "g", "e", "n", "c", "y", "N", "a", "m", "e">>,
         <<"E", "m", "e", "r", "g", "e", "n", "c", "y", " ", "N", "a", "m", "e">>,
         <<"E", "m", "e", "r", "g", "e", "n", "c", "y", "_", "N", "a", "m", "e">> >>],
    \* ALAMAT (KEADAAN DARURAT): AlamatDarurat, Alamat Darurat, EmergencyAddress, Emergency Address, Emergency_Address
    [key |-> <<"A", "L", "A", "M", "A", "T", " ", "(", "K", "E", "A", "D", "A", "A", "N", " ", "D", "A", "R", "U", "R", "A", "T", ")">>,
     syns |-> <<
         <<"A", "l", "a", "m", "a", "t", "D", "a", "r", "u", "r", "a", "t">>,
         <<"A", "l", "a", "m", "a", "t", " ", "D", "a", "r", "u", "r", "a", "t">>,
         <<"E", "m", "e", "r", "g", "e", "n", "c", "y", "A", "d", "d", "r", "e", "s", "s">>,
         <<"E", "m", "e", "r", "g", "e", "n", "c", "y", " ", "A", "d", "d", "r", "e", "s", "s">>,
         <<"E", "m", "e", "r", "g", "e", "n", "c", "y", "_", "A", "d", "d", "r", "e", "s", "s">> >>],
    \* NO TELP (KEADAAN DARURAT): TelpDarurat, Telp Darurat, Telp_Darurat, Emergency Phone, EmergencyPhone, Emergency_Phone
    [key |-> <<"N", "O", " ", "T", "E", "L", "P", " ", "(", "K", "E", "A", "D", "A", "A", "N", " ", "D", "A", "R", "U", "R", "A", "T", ")">>,
     syns |-> <<
         <<"T", "e", "l", "p", "D", "a", "r", "u", "r", "a", "t">>,
         <<"T", "e", "l", "p", " ", "D", "a", "r", "u", "r", "a", "t">>,
         <<"T", "e", "l", "p", "_", "D", "a", "r", "u", "r", "a", "t">>,
         <<"E", "m", "e", "r", "g", "e", "n", "c", "y", " ", "P", "h", "o", "n", "e">>,
         <<"E", "m", "e", "r", "g", "e", "n", "c", "y", "P", "h", "o", "n", "e">>,
         <<"E", "m", "e", "r", "g", "e", "n", "c", "y", "_", "P", "h", "o", "n", "e">> >>],
    \* STATUS HUBUNGAN (DARURAT): StatusHubunganDarurat, Status Hubungan Darurat, Status_Hubungan_Darurat, Emergency Relation, EmergencyRelation, Emergency_Relation
    [key |-> <<"S", "T", "A", "T", "U", "S", " ", "H", "U", "B", "U", "N", "G", "A", "N", " ", "(", "D", "A", "R", "U", "R", "A", "T", ")">>,
     syns |-> <<
         <<"S", "t", "a", "t", "u", "s", "H", "u", "b", "u", "n", "g", "a", "n", "D", "a", "r", "u", "r", "a", "t">>,
         <<"S", "t", "a", "t", "u", "s", " ", "H", "u", "b", "u", "n", "g", "a", "n", " ", "D", "a", "r", "u", "r", "a", "t">>,
         <<"S", "t", "a", "t", "u", "s", "_", "H", "u", "b", "u", "n", "g", "a", "n", "_", "D", "a", "r", "u", "r", "a", "t">>,
         <<"E", "m", "e", "r", "g", "e", "n", "c", "y", " ", "R", "e", "l", "a", "t", "i", "o", "n">>,
         <<"E", "m", "e", "r", "g", "e", "n", "c", "y", "R", "e", "l", "a", "t", "i", "o", "n">>,
         <<"E", "m", "e", "r", "g", "e", "n", "c", "y", "_", "R", "e", "l", "a", "t", "i", "o", "n">> >>],
    \* UNIT KERJA: UnitKerja_id, UnitKerja, Unit Kerja, Unit_Kerja
    [key |-> <<"U", "N", "I", "T", " ", "K", "E", "R", "J", "A">>,
     syns |-> <<
         <<"U", "n", "i", "t", "K", "e", "r", "j", "a", "_", "i", "d">>,
         <<"U", "n", "i", "t", "K", "e", "r", "j", "a">>,
         <<"U", "n", "i", "t", " ", "K", "e", "r", "j", "a">>,
         <<"U", "n", "i", "t", "_", "K", "e", "r", "j", "a">> >>],
    \* TAHUN AJARAN: TahunAjaran, Tahun Ajaran, Tahun_Ajaran
    [key |-> <<"T", "A", "H", "U", "N", " ", "A", "J", "A", "R", "A", "N">>,
     syns |-> <<
         <<"T", "a", "h", "u", "n", "A", "j", "a", "r", "a", "n">>,
         <<"T", "a", "h", "u", "n", " ", "A", "j", "a", "r", "a", "n">>,
         <<"T", "a", "h", "u", "n", "_", "A", "j", "a", "r", "a", "n">> >>],
    \* FAKULTAS: Fakultas_id, Fakultas, Faculty
    [key |-> <<"F", "A", "K", "U", "L", "T", "A", "S">>,
     syns |-> <<
         <<"F", "a", "k", "u", "l", "t", "a", "s", "_", "i", "d">>,
         <<"F", "a", "k", "u", "l", "t", "a", "s">>,
         <<"F", "a", "c", "u", "l", "t", "y">> >>],
    \* JURUSAN: Jurusan_id, Jurusan
    [key |-> <<"J", "U", "R", "U", "S", "A", "N">>,
     syns |-> <<
         <<"J", "u", "r", "u", "s", "a", "n", "_", "i", "d">>,
         <<"J", "u", "r", "u", "s", "a", "n">> >>],
    \* PROGRAM STUDI: ProgramStudi_id, Program Studi, ProgramStudi, Program_Studi
    [key |-> <<"P", "R", "O", "G", "R", "A", "M", " ", "S", "T", "U", "D", "I">>,
     syns |-> <<
         <<"P", "r", "o", "g", "r", "a", "m", "S", "t", "u", "d", "i", "_", "i", "d">>,
         <<"P", "r", "o", "g", "r", "a", "m", " ", "S", "t", "u", "d", "i">>,
         <<"P", "r", "o", "g", "r", "a", "m", "S", "t", "u", "d", "i">>,
         <<"P", "r", "o", "g", "r", "a", "m", "_", "S", "t", "u", "d", "i">> >>],
    \* KELAS SISWA: Kelas_id, Kelas, Class
    [key |-> <<"K", "E", "L", "A", "S", " ", "S", "I", "S", "W", "A">>,
     syns |-> <<
         <<"K", "e", "l", "a", "s", "_", "i", "d">>,
         <<"K", "e", "l", "a", "s">>,
         <<"C", "l", "a", "s", "s">> >>],
    \* PHOTO URL: PhotoUrl, Foto, Photo
    [key |-> <<"P", "H", "O", "T", "O", " ", "U", "R", "L">>,
     syns |-> <<
         <<"P", "h", "o", "t", "o", "U", "r", "l">>,
         <<"F", "o", "t", "o">>,
         <<"P", "h", "o", "t", "o">> >>]
>>

-----------------------------------------------------------------------------
(* src/app.py: the standardiser *)

NoPick == [found |-> FALSE, col |-> <<>>]
Picked(c) == [found |-> TRUE, col |-> c]

InSeq(x, s) == \E i \in 1..Len(s) : s[i] = x

HasKey(dict, k) == \E i \in 1..Len(dict) : dict[i].key = k
Entry(dict, k) == dict[CHOOSE i \in 1..Len(dict) : dict[i].key = k]

\* MAPPING_BUILTIN.get(target_name, {}).get(which, "")
builtin_src(target_name, which) ==
    IF ~HasKey(MAPPING_BUILTIN, target_name) THEN <<>>
    ELSE IF which = "kab" THEN Entry(MAPPING_BUILTIN, target_name).kab
    ELSE IF which = "disp" THEN Entry(MAPPING_BUILTIN, target_name).disp
    ELSE <<>>

\* SYNONYMS.get(target_name, [target_name])
synonym_cands(target_name) ==
    IF HasKey(SYNONYMS, target_name) THEN Entry(SYNONYMS, target_name).syns
    ELSE <<target_name>>

\* lower_map = {str(c).lower(): c for c in df_src.columns}, as the list of its
\* keys by column; lower_map[key] is the last column with that key
LowerKeys(columns) == [i \in 1..Len(columns) |-> lower(columns[i])]
LowerMapGet(columns, keys, key) ==
    columns[CHOOSE i \in 1..Len(columns) :
                /\ keys[i] = key
                /\ \A k \in (i + 1)..Len(columns) : keys[k] # key]

\* tiers 2 and 3 of _pick_source_col
pick_synonym_or_fuzzy(columns, target_name) ==
    LET keys == LowerKeys(columns)
        cands == synonym_cands(target_name)
        hits == SelectSeq(cands, LAMBDA cand : InSeq(lower(cand), keys))
        match == get_close_matches(target_name, columns)
    IN  IF hits # <<>> THEN Picked(LowerMapGet(columns, keys, lower(hits[1])))
        ELSE IF match # <<>> THEN Picked(match[1])
        ELSE NoPick

_pick_source_col_synonym_first(columns, target_name, which) ==
    LET src == builtin_src(target_name, which)
        later == pick_synonym_or_fuzzy(columns, target_name)
    IN  IF later.found THEN later
        ELSE IF src # <<>> /\ InSeq(src, columns) THEN Picked(src)
        ELSE NoPick

_pick_source_col(columns, target_name, which) ==
    LET src == builtin_src(target_name, which)
    IN  IF src # <<>> /\ InSeq(src, columns) THEN Picked(src)
        ELSE pick_synonym_or_fuzzy(columns, target_name)

NAVal == [kind |-> "NA", s |-> <<>>]

\* out[tgt] = pd.NA: one marker per record out has so far
AssignScalar(out, tgt) == SetCol(out, tgt, [i \in 1..Len(out.rows) |-> NAVal])

\* out[tgt] = df_src[src_col]: a frame without records takes the column's index
\* first (its earlier columns become NaN); then the column is aligned on the index
AssignSeries(out, tgt, df_src, name) ==
    LET indexed ==
            IF Len(out.rows) = 0 /\ Len(df_src.rows) > 0
            THEN [out EXCEPT !.rows =
                     [i \in 1..Len(df_src.rows) |->
                         [idx |-> df_src.rows[i].idx,
                          cells |-> [c \in 1..Len(out.columns) |-> NaN]]]]
            ELSE out
        value(r) ==
            IF \E i \in 1..Len(df_src.rows) : df_src.rows[i].idx = r.idx
            THEN Cell(df_src,
                      df_src.rows[CHOOSE i \in 1..Len(df_src.rows) : df_src.rows[i].idx = r.idx],
                      name)
            ELSE NaN
    IN  SetCol(indexed, tgt, [i \in 1..Len(indexed.rows) |-> value(indexed.rows[i])])

\* out = pd.DataFrame()
EmptyFrame == Table(<<>>, <<>>)

assign_field_skip(out, tgt, df_src, col) ==
    IF col.found /\ col.col # <<>> /\ InSeq(col.col, df_src.columns)
    THEN AssignSeries(out, tgt, df_src, col.col)
    ELSE out

\* out[tgt] = df_src[col] if (col and col in df_src.columns) else pd.NA
assign_field(out, tgt, df_src, col) ==
    IF col.found /\ col.col # <<>> /\ InSeq(col.col, df_src.columns)
    THEN AssignSeries(out, tgt, df_src, col.col)
    ELSE AssignScalar(out, tgt)

-----------------------------------------------------------------------------
(* Inputs of src/app.py *)

Digits16From1 == <<"1", "2", "1", "1">> \o Rep("0", 11) \o <<"1">>
Digits17 == SubPrefix \o Rep("0", 12) \o <<"1">>
\* the formatted value " 32.01-01/010203 "
FormattedShort ==
    <<" ", "3", "2", ".", "0", "1", "-", "0", "1", "/", "0", "1", "0", "2", "0", "3", " ">>

Insert(s, p, c) == SubSeq(s, 1, p) \o <<c>> \o SubSeq(s, p + 1, Len(s))

NormBodies == {Nik3211a.s, Digits16From1, Short3211.s, Digits17, <<>>}
NormExtras == {".", "-", " ", "a", ArabicThree, "7", "3"}

NormPositions(b) == {q \in {0, 4, Len(b)} : q <= Len(b)}

\* cells handed to normalize_nik: missing values, digit strings of length 15 to
\* 17, and the same with one more character in front, after the prefix or at the end
NormPool ==
    {NaN, NoneVal, S(FormattedShort)}
    \cup {S(b) : b \in NormBodies}
    \cup UNION {{S(Insert(b, pos, c)) : pos \in NormPositions(b), c \in NormExtras} :
                   b \in NormBodies}

Fmt3211a == S(<<"3", "2", ".", "1", "1", "-">> \o Rep("0", 11) \o <<"1", " ">>)

cMemberNo == <<"M", "e", "m", "b", "e", "r", "N", "o">>
cIdentityNo == <<"I", "d", "e", "n", "t", "i", "t", "y", "N", "o">>
cTag_clean == <<"T", "a", "g", "_", "c", "l", "e", "a", "n">>

CleanLayouts == {<<cMemberNo, cIdentityNo>>, <<cNIK, cIdentityNo, cTag_clean>>}

CleanCells(name) ==
    IF name \in {cMemberNo, cNIK} THEN {Nik3211a, Fmt3211a, Dash}
    ELSE IF name = cIdentityNo THEN {Nik3201b, Nik3211a, NaN}
    ELSE {S(<<"x">>)}

CleanCellsAll == UNION {CleanCells(name) : name \in {cMemberNo, cIdentityNo, cTag_clean}}

RowCells(layout) ==
    {cells \in [1..Len(layout) -> CleanCellsAll] :
        \A c \in 1..Len(layout) : cells[c] \in CleanCells(layout[c])}

MakeAppTable(layout, cellrows) ==
    Table(layout, [i \in 1..Len(cellrows) |-> [idx |-> i, cells |-> cellrows[i]]])

CleanTables ==
    UNION {{MakeAppTable(layout, cr) : cr \in SeqsUpTo(RowCells(layout), MaxRowsClean)} :
              layout \in CleanLayouts}

ColumnOptions(t) == {TidakAda} \cup {t.columns[c] : c \in 1..Len(t.columns)}

(* the two tables of the comparison and the widgets of their cleaning passes *)

\* records by their MemberNo and IdentityNo cells
CompareRows ==
    {<<Nik3211a, Nik3201b>>, <<Nik3201b, NaN>>, <<Dash, Nik3211a>>, <<Dash, Dash>>}

CompareTables ==
    {MakeAppTable(<<cMemberNo, cIdentityNo>>, cr) : cr \in SeqsUpTo(CompareRows, MaxRowsCompare)}

\* the selectboxes at their defaults, IdentityNo deselected, or nothing selected
WidgetChoices ==
    {[member_col |-> m, identity_col |-> i, do_clean |-> TRUE, drop_dup |-> d] :
        m \in {cMemberNo, TidakAda}, i \in {cIdentityNo, TidakAda}, d \in BOOLEAN}

(* source tables handed to _standardize *)

tNO_ANGGOTA == <<"N", "O", " ", "A", "N", "G", "G", "O", "T", "A">>
cID == <<"I", "D">>
cno_anggota == <<"n", "o", " ", "a", "n", "g", "g", "o", "t", "a">>
cNO_ANGGOTA_underscore == <<"N", "O", "_", "A", "N", "G", "G", "O", "T", "A">>
cNO_ANGGOTA_hyphen == <<"N", "O", "-", "A", "N", "G", "G", "O", "T", "A">>
cCity == <<"C", "i", "t", "y">>
cCatatan == <<"C", "a", "t", "a", "t", "a", "n">>

StdColumnPool ==
    {cMemberNo, cNIK, tNO_ANGGOTA, cno_anggota, cNO_ANGGOTA_underscore,
     cNO_ANGGOTA_hyphen, cCity, cID, cCatatan}

\* column lists of a loaded table: at least one column, no repeated names
StdColumnLists ==
    {cols \in SeqsUpTo(StdColumnPool, MaxColsStd) :
        /\ Len(cols) > 0
        /\ \A i, j \in 1..Len(cols) : i # j => cols[i] # cols[j]}

Digit(i) == <<"0", "1", "2", "3", "4", "5", "6", "7", "8", "9">>[(i % 10) + 1]

\* n records; the cell of the c-th column in record i is the text c#i
MakeStdTable(cols, n) ==
    Table(cols, [i \in 1..n |->
                    [idx |-> i,
                     cells |-> [c \in 1..Len(cols) |-> S(<<Digit(c), "#", Digit(i)>>)]]])

-----------------------------------------------------------------------------
(* Initial states and actions *)

AnggotaIdle ==
    /\ f1 = Upload1 /\ f2 = Upload2 /\ st_error = NoError
    /\ file1 = <<>> /\ file2 = <<>>
    /\ df1 = <<>> /\ df2 = <<>>
    /\ use_date_filter = FALSE
    /\ start_a = 0 /\ end_a = 0 /\ start_b = 0 /\ end_b = 0
    /\ df1_rawFiltered = <<>> /\ df2_rawFiltered = <<>>
    /\ df1_filteredNIK = <<>> /\ df2_filteredNIK = <<>>
    /\ nik_set_A = {} /\ nik_set_B = {}
    /\ df2_not_in_A = <<>> /\ df1_3211_not_in_B = <<>>

NormIdle == val = NaN /\ nik_out = NoneVal /\ valid_raw = FALSE

CompareIdle ==
    /\ df_a = NoneTable /\ df_b = NoneTable
    /\ widgets_a = [member_col |-> TidakAda, identity_col |-> TidakAda,
                    do_clean |-> FALSE, drop_dup |-> FALSE]
    /\ widgets_b = [member_col |-> TidakAda, identity_col |-> TidakAda,
                    do_clean |-> FALSE, drop_dup |-> FALSE]
    /\ df_a_clean = NoneTable /\ df_b_clean = NoneTable
    /\ nik_a = {} /\ nik_b = {}
    /\ df_only_b = NoneTable /\ df_only_a = NoneTable

StdIdle ==
    /\ std_src = NoneTable /\ std_which = "kab"
    /\ std_k = 0 /\ src_col = NoPick /\ std_out = NoneTable

CleanIdle ==
    /\ df_upload = NoneTable
    /\ member_col = TidakAda /\ identity_col = TidakAda
    /\ do_clean = FALSE /\ drop_dup = FALSE
    /\ df_valid = NoneTable /\ df_clean = NoneTable

InitAnggota ==
    /\ prog = "anggota"
    /\ pc = "uploaded"
    /\ f1 = Upload1 /\ f2 = Upload2 /\ st_error = NoError
    /\ file1 \in {MakeTable(p) : p \in SeqsUpTo(KeyPairs, MaxRowsA)}
    /\ file2 \in {MakeTable(p) : p \in SeqsUpTo(KeyPairsB, MaxRowsB)}
    /\ use_date_filter \in BOOLEAN
    /\ start_a = 1 /\ end_a = 3
    /\ start_b = 1 /\ end_b = 3
    /\ df1 = <<>> /\ df2 = <<>>
    /\ df1_rawFiltered = <<>> /\ df2_rawFiltered = <<>>
    /\ df1_filteredNIK = <<>> /\ df2_filteredNIK = <<>>
    /\ nik_set_A = {} /\ nik_set_B = {}
    /\ df2_not_in_A = <<>> /\ df1_3211_not_in_B = <<>>
    /\ NormIdle
    /\ CleanIdle
    /\ CompareIdle
    /\ StdIdle

\* one run of the script after "Proses Data" is pressed
ProcessData ==
    /\ prog = "anggota"
    /\ pc = "uploaded"
    /\ LET e1 == ensure_required_columns(f1.columns, f1.name)
           e2 == ensure_required_columns(f2.columns, f2.name)
           d1 == IF use_date_filter THEN apply_date_filter(file1, start_a, end_a) ELSE file1
           d2 == IF use_date_filter THEN apply_date_filter(file2, start_b, end_b) ELSE file2
           f1_kept == filter_nik_len16_awal3(d1)
           f2_kept == filter_nik_len16_awal3(d2)
           n1 == normalize_nik_columns(f1_kept)
           n2 == normalize_nik_columns(f2_kept)
           setA == KeyColumnValues(n1)
           setB == KeyColumnValues(n2)
       IN  IF e1.shown \/ e2.shown
           THEN \* st.error(...) and st.stop() in ensure_required_columns
                /\ st_error' = IF e1.shown THEN e1 ELSE e2
                /\ pc' = "stopped"
                /\ UNCHANGED <<df1, df2, df1_rawFiltered, df2_rawFiltered,
                               df1_filteredNIK, df2_filteredNIK, nik_set_A, nik_set_B,
                               df2_not_in_A, df1_3211_not_in_B>>
           ELSE /\ df1' = d1
                /\ df2' = d2
                /\ df1_rawFiltered' = f1_kept
                /\ df2_rawFiltered' = f2_kept
                /\ df1_filteredNIK' = n1
                /\ df2_filteredNIK' = n2
                /\ nik_set_A' = setA
                /\ nik_set_B' = setB
                /\ df2_not_in_A' = NotInA(n2, setA)
                /\ df1_3211_not_in_B' = Rows3211NotInB(n1, setB)
                /\ pc' = "done"
                /\ UNCHANGED st_error
    /\ UNCHANGED <<prog, f1, f2, file1, file2, use_date_filter,
                   start_a, end_a, start_b, end_b>>
    /\ UNCHANGED <<varsNorm, varsClean, varsCompare, varsStd>>

NextAnggota == ProcessData

SpecAnggota == InitAnggota /\ [][NextAnggota]_vars

\* the same script on uploads that differ in their CreateDate cells, with the
\* date inputs of the sidebar varied
InitDates ==
    /\ prog = "anggota"
    /\ pc = "uploaded"
    /\ f1 = Upload1 /\ f2 = Upload2 /\ st_error = NoError
    /\ file1 \in {MakeDatedTable(d) : d \in SeqsUpTo(DatePool, MaxRowsA)}
    /\ file2 \in {MakeDatedTable(d) : d \in SeqsUpTo(DatePool, MaxRowsB)}
    /\ use_date_filter \in BOOLEAN
    /\ start_a \in StartDays /\ end_a \in EndDays
    /\ start_b \in StartDays /\ end_b \in EndDays
    /\ df1 = <<>> /\ df2 = <<>>
    /\ df1_rawFiltered = <<>> /\ df2_rawFiltered = <<>>
    /\ df1_filteredNIK = <<>> /\ df2_filteredNIK = <<>>
    /\ nik_set_A = {} /\ nik_set_B = {}
    /\ df2_not_in_A = <<>> /\ df1_3211_not_in_B = <<>>
    /\ NormIdle
    /\ CleanIdle
    /\ CompareIdle
    /\ StdIdle

SpecDates == InitDates /\ [][NextAnggota]_vars

\* the same script on sheets that may lack required columns
InitColumns ==
    /\ prog = "anggota"
    /\ pc = "uploaded"
    /\ f1 \in [name : {"a.xlsx"}, columns : ColumnSets]
    /\ f2 \in [name : {"b.xlsx"}, columns : ColumnSets]
    /\ st_error = NoError
    /\ \E n \in 0..MaxRowsA :
          file1 = WithColumns(MakeDatedTable([i \in 1..n |-> Stamp(1)]), f1.columns)
    /\ \E n \in 0..MaxRowsB :
          file2 = WithColumns(MakeDatedTable([i \in 1..n |-> Stamp(1)]), f2.columns)
    /\ use_date_filter \in BOOLEAN
    /\ start_a = 1 /\ end_a = 3
    /\ start_b = 1 /\ end_b = 3
    /\ df1 = <<>> /\ df2 = <<>>
    /\ df1_rawFiltered = <<>> /\ df2_rawFiltered = <<>>
    /\ df1_filteredNIK = <<>> /\ df2_filteredNIK = <<>>
    /\ nik_set_A = {} /\ nik_set_B = {}
    /\ df2_not_in_A = <<>> /\ df1_3211_not_in_B = <<>>
    /\ NormIdle
    /\ CleanIdle
    /\ CompareIdle
    /\ StdIdle

SpecColumns == InitColumns /\ [][NextAnggota]_vars


(* normalize_nik applied to one cell *)

InitNorm ==
    /\ prog = "normalize"
    /\ pc = "called"
    /\ val \in NormPool
    /\ nik_out = NoneVal
    /\ valid_raw = FALSE
    /\ AnggotaIdle
    /\ CleanIdle
    /\ CompareIdle
    /\ StdIdle

Normalize ==
    /\ prog = "normalize"
    /\ pc = "called"
    /\ nik_out' = normalize_nik(val)
    /\ pc' = "done"
    /\ UNCHANGED <<prog, val, valid_raw, varsAnggota, varsClean, varsCompare, varsStd>>

NextNorm == Normalize

SpecNorm == InitNorm /\ [][NextNorm]_vars

(* the two validation policies applied to the same cell *)

InitPolicies ==
    /\ prog = "policies"
    /\ pc = "called"
    /\ val \in NormPool
    /\ nik_out = NoneVal
    /\ valid_raw = FALSE
    /\ AnggotaIdle
    /\ CleanIdle
    /\ CompareIdle
    /\ StdIdle

ApplyPolicies ==
    /\ prog = "policies"
    /\ pc = "called"
    /\ nik_out' = normalize_nik(val)
    /\ valid_raw' = is_valid_nik_len16_awal3(val)
    /\ pc' = "done"
    /\ UNCHANGED <<prog, val, varsAnggota, varsClean, varsCompare, varsStd>>

NextPolicies == ApplyPolicies

SpecPolicies == InitPolicies /\ [][NextPolicies]_vars

(* clean_with_nik applied to one uploaded table *)

InitClean ==
    /\ prog = "clean"
    /\ pc = "called"
    /\ df_upload \in CleanTables
    /\ member_col \in ColumnOptions(df_upload)
    /\ identity_col \in ColumnOptions(df_upload)
    /\ do_clean \in BOOLEAN
    /\ drop_dup \in BOOLEAN
    \* with cleaning switched off the other widgets do not matter
    /\ ~do_clean => (drop_dup /\ member_col = TidakAda /\ identity_col = TidakAda)
    /\ df_valid = NoneTable /\ df_clean = NoneTable
    /\ AnggotaIdle
    /\ NormIdle
    /\ CompareIdle
    /\ StdIdle

Clean ==
    /\ prog = "clean"
    /\ pc = "called"
    /\ df_valid' = IF ~do_clean \/ (member_col = TidakAda /\ identity_col = TidakAda)
                   THEN NoneTable
                   ELSE valid_rows(df_upload, member_col, identity_col)
    /\ df_clean' = clean_with_nik(df_upload, member_col, identity_col, do_clean, drop_dup)
    /\ pc' = "done"
    /\ UNCHANGED <<prog, df_upload, member_col, identity_col, do_clean, drop_dup>>
    /\ UNCHANGED <<varsAnggota, varsNorm, varsCompare, varsStd>>

NextClean == Clean

SpecClean == InitClean /\ [][NextClean]_vars

(* the comparison of the two cleaned tables *)

InitCompare ==
    /\ prog = "compare"
    /\ pc = "uploaded"
    /\ df_a \in CompareTables
    /\ df_b \in CompareTables
    /\ widgets_a \in WidgetChoices
    /\ widgets_b \in WidgetChoices
    /\ df_a_clean = NoneTable /\ df_b_clean = NoneTable
    /\ nik_a = {} /\ nik_b = {}
    /\ df_only_b = NoneTable /\ df_only_a = NoneTable
    /\ AnggotaIdle
    /\ NormIdle
    /\ CleanIdle
    /\ StdIdle

\* one run of the script from the two cleaning passes to the two outputs
Compare ==
    /\ prog = "compare"
    /\ pc = "uploaded"
    /\ df_a_clean' = clean_with_nik(df_a, widgets_a.member_col, widgets_a.identity_col,
                                    widgets_a.do_clean, widgets_a.drop_dup)
    /\ df_b_clean' = clean_with_nik(df_b, widgets_b.member_col, widgets_b.identity_col,
                                    widgets_b.do_clean, widgets_b.drop_dup)
    /\ IF df_a_clean'.isnone \/ df_b_clean'.isnone
       THEN UNCHANGED <<nik_a, nik_b, df_only_b, df_only_a>>
       ELSE /\ nik_a' = unique_niks(df_a_clean')
            /\ nik_b' = unique_niks(df_b_clean')
            \* only_in_b = nik_b - nik_a, only_in_a = nik_a - nik_b
            /\ df_only_b' = rows_with_nik_in(df_b_clean', nik_b' \ nik_a')
            /\ df_only_a' = rows_with_nik_in(df_a_clean', nik_a' \ nik_b')
    /\ pc' = "done"
    /\ UNCHANGED <<prog, df_a, df_b, widgets_a, widgets_b>>
    /\ UNCHANGED <<varsAnggota, varsNorm, varsClean, varsStd>>

NextCompare == Compare

SpecCompare == InitCompare /\ [][NextCompare]_vars

(* _standardize applied to one source table, one template field per step *)

InitStd ==
    /\ prog = "standardize"
    /\ pc = "loop"
    /\ std_src \in {MakeStdTable(cols, n) : cols \in StdColumnLists, n \in {0, MaxRowsStd}}
    /\ std_which \in {"kab", "disp"}
    /\ std_k = 1
    /\ src_col = NoPick
    /\ std_out = EmptyFrame
    /\ AnggotaIdle
    /\ NormIdle
    /\ CleanIdle
    /\ CompareIdle

StandardizeField ==
    /\ prog = "standardize"
    /\ pc = "loop"
    /\ std_k <= Len(TEMPLATE_ORDER)
    /\ LET tgt == TEMPLATE_ORDER[std_k]
           picked == _pick_source_col(std_src.columns, tgt, std_which)
       IN  /\ src_col' = picked
           /\ std_out' = assign_field(std_out, tgt, std_src, picked)
    /\ std_k' = std_k + 1
    /\ pc' = IF std_k = Len(TEMPLATE_ORDER) THEN "done" ELSE "loop"
    /\ UNCHANGED <<prog, std_src, std_which, varsAnggota, varsNorm, varsClean, varsCompare>>

NextStd == StandardizeField

SpecStd == InitStd /\ [][NextStd]_vars

(* the two record filters, app_anggota.py's and app.py's *)

InitFilters == InitAnggota \/ InitClean

NextFilters == ProcessData \/ Clean

SpecFilters == InitFilters /\ [][NextFilters]_vars

-----------------------------------------------------------------------------
(* Properties of src/app_anggota.py *)

AnggotaDone == prog = "anggota" /\ pc = "done"

\* a valid NIK as the data model defines it: exactly 16 decimal digits, the first a 3
IsNik(s) ==
    /\ Len(s) = 16
    /\ \A i \in 1..Len(s) : s[i] \in AsciiDigits
    /\ s[1] = "3"

\* the valid NIKs a record carries in its two key columns
RowKeys(r) == {k \in {str(r.MemberNo), str(r.IdentityNo)} : IsNik(k)}

\* the key-set of a table: every valid NIK found in either key column
KeySet(tbl) == UNION {RowKeys(tbl[i]) : i \in 1..Len(tbl)}

Indices(tbl) == {tbl[i].idx : i \in 1..Len(tbl)}

\* sub is made of records of tbl, in tbl's order
IsSubTable(sub, tbl) ==
    LET in_sub(r) == r \in {sub[j] : j \in 1..Len(sub)} IN sub = SelectSeq(tbl, in_sub)

\* C1: a record of filtered B is emitted in df2_not_in_A iff none of its valid
\* NIKs is in the key-set (the valid NIKs) of filtered A.
C1_SymmetricAbsenceByValidKeys ==
    AnggotaDone =>
        \A i \in 1..Len(df2_filteredNIK) :
            LET r == df2_filteredNIK[i] IN
            (r.idx \in Indices(df2_not_in_A))
                <=> (RowKeys(r) \cap KeySet(df1_filteredNIK) = {})

\* C2: nik_set_A and nik_set_B contain only valid NIKs.
C2_KeySetsHoldOnlyValidNiks ==
    AnggotaDone => \A k \in nik_set_A \cup nik_set_B : IsNik(str(k))

\* C3: disjoint key-sets make df2_not_in_A all of filtered B; identical
\* key-sets make it empty.
C3_DisjointAllIdenticalNone ==
    AnggotaDone =>
        LET ka == KeySet(df1_filteredNIK)
            kb == KeySet(df2_filteredNIK)
        IN  /\ (ka \cap kb = {}) => df2_not_in_A = df2_filteredNIK
            /\ (ka = kb) => df2_not_in_A = <<>>

\* C4: df1_3211_not_in_B is a sub-table of filtered A in A's order, and each of
\* its records has a valid NIK that starts with 3211 and is not in B's key-set.
C4_PrefixRestrictedAbsence ==
    AnggotaDone =>
        /\ IsSubTable(df1_3211_not_in_B, df1_filteredNIK)
        /\ \A j \in 1..Len(df1_3211_not_in_B) :
              \E k \in RowKeys(df1_3211_not_in_B[j]) :
                  /\ startswith(k, <<"3", "2", "1", "1">>)
                  /\ k \notin KeySet(df2_filteredNIK)

-----------------------------------------------------------------------------
(* Properties of src/app.py and of the record filters *)

NormDone == prog = "normalize" /\ pc = "done"
CleanDone == prog = "clean" /\ pc = "done"

\* the decimal digits 0-9 of a cell's text, in order; a missing cell has none
DigitsOf(v) ==
    IF v = NaN \/ v = NoneVal THEN <<>>
    ELSE SelectSeq(pystr(v), LAMBDA c : c \in {"0", "1", "2", "3", "4", "5", "6", "7", "8", "9"})

\* C5: normalize_nik returns the cell's digits-only string when it has exactly
\* 16 digits and starts with 3, and None in every other case (missing cells too).
C5_NormalizeNik ==
    NormDone =>
        LET d == DigitsOf(val)
        IN  IF Len(d) = 16 /\ d[1] = "3" THEN nik_out = S(d) ELSE nik_out = NoneVal

\* a formatted cell was reduced to its 16 digits
C5_Witness ==
    NormDone /\ nik_out # NoneVal /\ nik_out # val /\ Len(pystr(val)) > 16

RowSet(tbl) == {tbl[i] : i \in 1..Len(tbl)}

\* the filter of app_anggota.py kept exactly the records of tbl with a valid key
KeptIffEitherValidAnggota(kept, tbl) ==
    /\ \A i \in 1..Len(tbl) :
          (tbl[i] \in RowSet(kept))
              <=> (is_valid_nik_len16_awal3(tbl[i].MemberNo)
                   \/ is_valid_nik_len16_awal3(tbl[i].IdentityNo))
    /\ IsSubTable(kept, tbl)
    /\ Len(kept) <= Len(tbl)

\* the selected key column of a record of the uploaded table normalises to a NIK
SelectedValid(r, col) ==
    col # TidakAda /\ normalize_nik(Cell(df_upload, r, col)) # NoneVal

\* the cleaning pass of app.py kept exactly the records with a valid key, unchanged
KeptIffEitherValidApp ==
    LET src == df_upload.rows
        out == TakeCols(df_valid, df_upload.columns).rows
    IN  /\ \A i \in 1..Len(src) :
              (src[i] \in RowSet(out))
                  <=> (SelectedValid(src[i], member_col) \/ SelectedValid(src[i], identity_col))
        /\ IsSubTable(out, src)
        /\ Len(out) <= Len(src)

\* C6: the record filter keeps a record iff its MemberNo or its IdentityNo is
\* valid under the implementation's policy, in the table's order, never more
\* records than the table has (both implementations).
C6_RecordFilter ==
    /\ AnggotaDone => /\ KeptIffEitherValidAnggota(df1_rawFiltered, df1)
                      /\ KeptIffEitherValidAnggota(df2_rawFiltered, df2)
    /\ (CleanDone /\ ~df_valid.isnone) => KeptIffEitherValidApp

\* of two uploaded records the cleaning pass kept only the second, whose
\* MemberNo is invalid and whose IdentityNo is valid
C6_Witness ==
    /\ CleanDone /\ ~df_valid.isnone
    /\ member_col = cMemberNo /\ identity_col = cIdentityNo
    /\ Len(df_upload.rows) = 2 /\ Len(df_valid.rows) = 1
    /\ df_valid.rows[1].idx = 2
    /\ ~SelectedValid(df_upload.rows[2], member_col)

\* C7: the record filter applied to its own output returns that output
\* unchanged (both implementations).
C7_FilterIdempotent ==
    /\ AnggotaDone =>
          /\ filter_nik_len16_awal3(df1_rawFiltered) = df1_rawFiltered
          /\ filter_nik_len16_awal3(df2_rawFiltered) = df2_rawFiltered
          /\ filter_nik_len16_awal3(df1_filteredNIK) = df1_filteredNIK
          /\ filter_nik_len16_awal3(df2_filteredNIK) = df2_filteredNIK
    /\ (CleanDone /\ ~df_valid.isnone) =>
          /\ valid_rows(df_valid, member_col, identity_col) = df_valid
          /\ (\A col \in {member_col, identity_col} : col = TidakAda \/ HasCol(df_clean, col))
                => clean_with_nik(df_clean, member_col, identity_col, do_clean, drop_dup)
                       = df_clean

\* the filter dropped the first record of File A and kept the second
C7_Witness ==
    /\ AnggotaDone
    /\ Len(df1) = 2 /\ Len(df1_rawFiltered) = 1
    /\ df1_rawFiltered[1].idx = 2

-----------------------------------------------------------------------------
(* Properties of the standardiser *)

\* the loop of _standardize has just handled the field StdField
StdStepped == prog = "standardize" /\ std_k > 1
StdField == TEMPLATE_ORDER[std_k - 1]
StdDone == prog = "standardize" /\ pc = "done"

\* the column of table t named name, as the list of [idx, value] of its records
ColumnOf(t, name) ==
    [i \in 1..Len(t.rows) |-> [idx |-> t.rows[i].idx, value |-> Cell(t, t.rows[i], name)]]

\* C8: when the builtin mapping entry of the field under the origin tag names a
\* column of the source table, that column is the one chosen and copied,
\* whatever synonyms or closer fuzzy matches the source has.
C8_BuiltinMappingFirst ==
    StdStepped =>
        \A e \in 1..Len(MAPPING_BUILTIN) :
            LET m == IF std_which = "kab" THEN MAPPING_BUILTIN[e].kab
                     ELSE MAPPING_BUILTIN[e].disp
            IN  (MAPPING_BUILTIN[e].key = StdField /\ m # <<>> /\ InSeq(m, std_src.columns))
                    => /\ src_col = Picked(m)
                       /\ ColumnOf(std_out, StdField) = ColumnOf(std_src, m)

\* NO ANGGOTA was filled from MemberNo although its synonym NIK is a source column too
C8_Witness ==
    /\ StdStepped /\ StdField = tNO_ANGGOTA
    /\ InSeq(cNIK, std_src.columns) /\ InSeq(cMemberNo, std_src.columns)
    /\ src_col = Picked(cMemberNo)
    /\ Len(std_src.rows) > 0

\* C9: the table under construction has exactly the template fields handled so
\* far, each once and in template order; the finished table has exactly
\* TEMPLATE_ORDER as its columns.
C9_ExactlyTemplateColumns ==
    /\ (prog = "standardize") =>
          /\ std_out.columns = SubSeq(TEMPLATE_ORDER, 1, std_k - 1)
          /\ \A i, j \in 1..Len(std_out.columns) :
                i # j => std_out.columns[i] # std_out.columns[j]
    /\ StdDone => std_out.columns = TEMPLATE_ORDER

\* a finished table whose source had a column that is no template field and
\* resolves none, next to one that resolves
C9_Witness ==
    /\ StdDone
    /\ std_src.columns = <<cCatatan, cMemberNo>>
    /\ Len(std_src.rows) = 2

IsMissing(v) == v = NaN \/ v = NAVal

-----------------------------------------------------------------------------
(* Properties of the de-duplication in clean_with_nik *)

\* the NIK of a record of the uploaded table: from the selected MemberNo column
\* when that is valid, otherwise from the selected IdentityNo column
DerivedNik(r) ==
    IF SelectedValid(r, member_col)
    THEN normalize_nik(Cell(df_upload, r, member_col))
    ELSE IF identity_col # TidakAda
         THEN normalize_nik(Cell(df_upload, r, identity_col))
         ELSE NoneVal

\* the record of the uploaded table with index idx
UploadRow(idx) == df_upload.rows[CHOOSE i \in 1..Len(df_upload.rows) : df_upload.rows[i].idx = idx]

\* C11: every record of the cleaned table carries its derived NIK (MemberNo
\* first, IdentityNo as fallback); with de-duplication on, no two records share
\* a NIK, and the records kept are exactly the valid records with no earlier
\* valid record of the same NIK, in table order; the pass returns a table.
C11_DedupKeepsFirst ==
    (CleanDone /\ ~df_valid.isnone) =>
        /\ ~df_clean.isnone
        /\ \A k \in 1..Len(df_clean.rows) :
              /\ Cell(df_clean, df_clean.rows[k], cNIK) = DerivedNik(UploadRow(df_clean.rows[k].idx))
              /\ Cell(df_clean, df_clean.rows[k], cNIK) # NoneVal
        /\ drop_dup =>
              /\ \A j, k \in 1..Len(df_clean.rows) :
                    j # k => Cell(df_clean, df_clean.rows[j], cNIK)
                             # Cell(df_clean, df_clean.rows[k], cNIK)
              /\ Indices(df_clean.rows) =
                    {df_valid.rows[i].idx : i \in
                        {i \in 1..Len(df_valid.rows) :
                            \A j \in 1..(i - 1) :
                                DerivedNik(UploadRow(df_valid.rows[j].idx))
                                # DerivedNik(UploadRow(df_valid.rows[i].idx))}}
              /\ \A j, k \in 1..Len(df_clean.rows) :
                    j < k => df_clean.rows[j].idx < df_clean.rows[k].idx
        /\ ~drop_dup => Len(df_clean.rows) = Len(df_valid.rows)

\* two uploaded records derive the same NIK, the first from MemberNo and the
\* second from IdentityNo; the cleaned table holds the first only
C11_Witness ==
    /\ CleanDone /\ ~df_clean.isnone /\ drop_dup
    /\ Len(df_upload.rows) = 2 /\ Len(df_valid.rows) = 2
    /\ SelectedValid(df_upload.rows[1], member_col)
    /\ ~SelectedValid(df_upload.rows[2], member_col)
    /\ Len(df_clean.rows) = 1 /\ df_clean.rows[1].idx = 1

-----------------------------------------------------------------------------
(* Properties of the date-range filter *)

\* the CreateDate cell parses to a timestamp whose calendar day lies in start..end
InRange(cell, start, end) == cell.kind = "ts" /\ start <= cell.day /\ cell.day <= end

\* filtered holds exactly the records of uploaded whose CreateDate is in range,
\* in order, each with its keys unchanged
DateFiltered(filtered, uploaded, start, end) ==
    LET pos == SelectSeq([i \in 1..Len(uploaded) |-> i],
                         LAMBDA i : InRange(uploaded[i].CreateDate, start, end))
    IN  /\ Len(filtered) = Len(pos)
        /\ \A k \in 1..Len(pos) :
              /\ filtered[k].idx = uploaded[pos[k]].idx
              /\ filtered[k].MemberNo = uploaded[pos[k]].MemberNo
              /\ filtered[k].IdentityNo = uploaded[pos[k]].IdentityNo
              /\ filtered[k].date = [kind |-> "date", day |-> uploaded[pos[k]].CreateDate.day]

\* C12: with the date filter on, a record is retained iff its CreateDate parses
\* to a timestamp whose calendar date d satisfies start <= d <= end, bounds
\* included; a record whose CreateDate does not parse is excluded and the run
\* goes on; table A is filtered with start_a, end_a and table B with start_b,
\* end_b.
C12_DateRangeFilter ==
    (AnggotaDone /\ use_date_filter) =>
        /\ DateFiltered(df1, file1, start_a, end_a)
        /\ DateFiltered(df2, file2, start_b, end_b)

\* table A holds a record dated on start_a and one whose CreateDate does not
\* parse, and is filtered to the first; table B holds a record dated like A's
\* first, and its own bounds exclude it
C12_Witness ==
    /\ AnggotaDone /\ use_date_filter
    /\ Len(file1) = 2 /\ Len(df1) = 1
    /\ file1[1].CreateDate = Stamp(start_a) /\ file1[2].CreateDate = BadStamp
    /\ df1[1].idx = 1
    /\ Len(file2) > 0 /\ file2[1].CreateDate = file1[1].CreateDate
    /\ Len(df2) = 0

-----------------------------------------------------------------------------
(* Properties of the configuration errors of app_anggota.py *)

\* the required columns the sheet of upload f lacks, in the order of REQUIRED_COLS
MissingOf(f) == SelectSeq(<<"MemberNo", "IdentityNo", "CreateDate">>, LAMBDA c : c \notin f.columns)

\* nothing was filtered, reconciled or produced
NothingProduced ==
    /\ df1 = <<>> /\ df2 = <<>>
    /\ df1_rawFiltered = <<>> /\ df2_rawFiltered = <<>>
    /\ df1_filteredNIK = <<>> /\ df2_filteredNIK = <<>>
    /\ nik_set_A = {} /\ nik_set_B = {}
    /\ df2_not_in_A = <<>> /\ df1_3211_not_in_B = <<>>

\* C13: when table A or table B lacks a required column, the run stops with
\* nothing filtered, reconciled or produced, and the error shown names a table
\* that lacks columns together with exactly the required columns it lacks; a
\* run that completes had every required column in both tables.
C13_MissingColumnsHalt ==
    (prog = "anggota" /\ pc # "uploaded") =>
        /\ (MissingOf(f1) # <<>> \/ MissingOf(f2) # <<>>) =>
              /\ pc = "stopped"
              /\ NothingProduced
              /\ st_error.shown
              /\ \E f \in {f1, f2} :
                    /\ MissingOf(f) # <<>>
                    /\ st_error.name = f.name
                    /\ st_error.missing = MissingOf(f)
        /\ (MissingOf(f1) = <<>> /\ MissingOf(f2) = <<>>) =>
              (pc = "done" /\ ~st_error.shown)

\* table A is complete, table B lacks CreateDate only and holds a record: the
\* run stopped and the error names b.xlsx and CreateDate
C13_Witness ==
    /\ prog = "anggota" /\ pc = "stopped"
    /\ MissingOf(f1) = <<>> /\ MissingOf(f2) = <<"CreateDate">>
    /\ Len(file1) > 0 /\ Len(file2) > 0
    /\ st_error = [shown |-> TRUE, name |-> "b.xlsx", missing |-> <<"CreateDate">>]

-----------------------------------------------------------------------------
(* Properties of the order of the steps of app_anggota.py *)

\* the cell is a valid NIK once coerced to a string and trimmed
ValidAfterTrim(cell) == IsNik(strip(str(cell)))

\* C14: the key columns are trimmed before they are validated: every record of
\* a table whose MemberNo or IdentityNo is a valid NIK once trimmed is retained
\* by the record filter.
C14_TrimBeforeFilter ==
    AnggotaDone =>
        /\ \A i \in 1..Len(df1) :
              (ValidAfterTrim(df1[i].MemberNo) \/ ValidAfterTrim(df1[i].IdentityNo))
                  => df1[i].idx \in Indices(df1_filteredNIK)
        /\ \A i \in 1..Len(df2) :
              (ValidAfterTrim(df2[i].MemberNo) \/ ValidAfterTrim(df2[i].IdentityNo))
                  => df2[i].idx \in Indices(df2_filteredNIK)

-----------------------------------------------------------------------------
(* Properties of the synonym and fuzzy tiers of the standardiser *)

\* the builtin mapping of field F under the origin tag names a source column
BuiltinResolves(F) ==
    \E e \in 1..Len(MAPPING_BUILTIN) :
        LET m == IF std_which = "kab" THEN MAPPING_BUILTIN[e].kab ELSE MAPPING_BUILTIN[e].disp
        IN  MAPPING_BUILTIN[e].key = F /\ m # <<>> /\ InSeq(m, std_src.columns)

\* the synonym list configured for field F, empty when there is none
SynonymsOf(F) ==
    IF \E e \in 1..Len(SYNONYMS) : SYNONYMS[e].key = F
    THEN SYNONYMS[CHOOSE e \in 1..Len(SYNONYMS) : SYNONYMS[e].key = F].syns
    ELSE <<>>

\* some source column equals name ignoring case
ColumnIgnoringCase(name) ==
    \E c \in 1..Len(std_src.columns) : lower(std_src.columns[c]) = lower(name)

\* C15: when the builtin mapping does not resolve the field, the candidates
\* synonyms[F] followed by F itself are compared with the source column names
\* ignoring case, and the column chosen is one that equals the first matching
\* candidate ignoring case; so a column named like F ignoring case resolves F.
C15_SynonymTierIncludesField ==
    StdStepped =>
        LET cands == SynonymsOf(StdField) \o <<StdField>>
            matching == SelectSeq(cands, ColumnIgnoringCase)
        IN  (~BuiltinResolves(StdField) /\ matching # <<>>)
                => (src_col.found /\ lower(src_col.col) = lower(matching[1]))

-----------------------------------------------------------------------------
(* Properties of the comparison of app.py *)

CompareDone == prog = "compare" /\ pc = "done"

\* the valid NIKs record r of table t carries in the key columns selected by w
KeyNiks(t, r, w) ==
    {d \in {DigitsOf(Cell(t, r, c)) : c \in {w.member_col, w.identity_col} \ {TidakAda}} :
        IsNik(d)}

\* the valid NIKs found in either key column of any record of table t
AllKeyNiks(t, w) == UNION {KeyNiks(t, t.rows[i], w) : i \in 1..Len(t.rows)}

\* C16: a record is emitted as only in Kab/Kota only if none of its valid NIKs,
\* from MemberNo or from IdentityNo, is a valid NIK of either key column of a
\* record of the cleaned Dispusipda table; and the same with the tables swapped
\* for the records emitted as only in Dispusipda.
C16_UnionOfKeyColumns ==
    (CompareDone /\ ~df_only_b.isnone /\ ~df_only_a.isnone) =>
        /\ \A i \in 1..Len(df_only_b.rows) :
              KeyNiks(df_only_b, df_only_b.rows[i], widgets_b)
                  \cap AllKeyNiks(df_a_clean, widgets_a) = {}
        /\ \A i \in 1..Len(df_only_a.rows) :
              KeyNiks(df_only_a, df_only_a.rows[i], widgets_a)
                  \cap AllKeyNiks(df_b_clean, widgets_b) = {}

-----------------------------------------------------------------------------
(* Properties of the two validation policies *)

PoliciesDone == prog = "policies" /\ pc = "done"

\* C17: every cell accepted by is_valid_nik_len16_awal3 (policy B, the raw
\* text is 16 digits starting with 3) is accepted by normalize_nik (policy A,
\* the digits left after stripping are 16 starting with 3).
C17_RawPolicyWithinStripPolicy ==
    PoliciesDone => (valid_raw => nik_out # NoneVal)

\* the source columns whose similarity to field F is at least the cutoff, in
\* source-column order
CloseColumns(F) ==
    SelectSeq(std_src.columns, LAMBDA c : AtLeastCutoff(ratio(c, F)))

\* those of them whose similarity to F is maximal, in source-column order
BestColumns(F) ==
    LET good == CloseColumns(F)
    IN  SelectSeq(good, LAMBDA c :
            \A k \in 1..Len(good) : ~RatioLess(ratio(c, F), ratio(good[k], F)))

\* neither the builtin mapping nor any of synonyms[F] and F, compared ignoring
\* case, names a source column
OnlyFuzzyLeft(F) ==
    /\ ~BuiltinResolves(F)
    /\ SelectSeq(SynonymsOf(F) \o <<F>>, ColumnIgnoringCase) = <<>>

\* C18: when only the fuzzy tier is left, the column chosen has similarity at
\* least 0.85 to the field and maximal among the source columns, and of several
\* columns with the maximal similarity the first in source-column order is
\* chosen; when no column reaches 0.85 the field is unresolved.
C18_FuzzyFirstBest ==
    (StdStepped /\ OnlyFuzzyLeft(StdField)) =>
        IF CloseColumns(StdField) = <<>>
        THEN ~src_col.found
        ELSE src_col = Picked(BestColumns(StdField)[1])

-----------------------------------------------------------------------------
(* Properties of the configuration tables of the standardiser *)

TemplateFields == {TEMPLATE_ORDER[k] : k \in 1..Len(TEMPLATE_ORDER)}
MappingKeys == {MAPPING_BUILTIN[e].key : e \in 1..Len(MAPPING_BUILTIN)}
SynonymKeys == {SYNONYMS[e].key : e \in 1..Len(SYNONYMS)}

\* the template field KABUPATEN/KOTA SESUAI KTP
KabKotaKtp == TEMPLATE_ORDER[12]

\* C19: the keys of MAPPING_BUILTIN and the keys of SYNONYMS are exactly the
\* fields of TEMPLATE_ORDER, so the standardiser consults each field's own
\* entries: a source column City fills the field KABUPATEN/KOTA SESUAI KTP.
C19_TablesKeyedByTemplate ==
    StdStepped =>
        /\ MappingKeys = TemplateFields
        /\ SynonymKeys = TemplateFields
        /\ (StdField = KabKotaKtp /\ InSeq(cCity, std_src.columns))
              => src_col = Picked(cCity)

=============================================================================
